---- MODULE Spec2Model ----
(***************************************************************************)
(* Model of the module bundler of rasen-gpui                               *)
(* (src/native/rasen-gpui/src/module_loader.rs): the dependency graph      *)
(* builder (bundle_modules / load_module_recursive), the bundle emitter    *)
(* and the JavaScript runtime the emitted bundle contains (__require,      *)
(* __requireAlias, the eager registration of the aliases).                 *)
(***************************************************************************)
EXTENDS Integers, Sequences, FiniteSets, TLC

(***************************************************************************)
(* Bounds of the model.                                                    *)
(***************************************************************************)
\* number of module files of the file tree
NumPaths == 3
\* number of import statements in the whole file tree
MaxImports == 3

(***************************************************************************)
(* The file tree: canonical paths, the specifiers that name them, the      *)
(* alias names of rasen.config.js.                                         *)
(***************************************************************************)
AllPaths == <<"/p/a.js", "/p/b.js", "/p/c.js", "/p/d.js", "/p/e.js">>
AllFileSpecs == <<"./a", "./b", "./c", "./d", "./e">>

Min(a, b) == IF a < b THEN a ELSE b

PathIdx == 1..Min(NumPaths, Len(AllPaths))
\* PathBuf values that name an existing file
Paths == {AllPaths[i] : i \in PathIdx}
\* relative specifiers, "./a" names /p/a.js
FileSpecs == {AllFileSpecs[i] : i \in PathIdx}
\* the keys rasen.config.js may hold
AliasNames == {"pkg", "lib"}
\* a bare specifier that is neither an alias nor a file
Ghost == "ghost"
\* the None of Option<PathBuf>, the Err of canonicalize()
NoPath == "<none>"

EmptyFn == [x \in {} |-> x]

\* sequences over S of length at most n
SeqUpTo(S, n) == UNION {[1..k -> S] : k \in 0..n}

\* the permutations of a finite set, as sequences
Perms(S) == {s \in [1..Cardinality(S) -> S] : \A i, j \in 1..Cardinality(S) : i # j => s[i] # s[j]}

Range(s) == {s[i] : i \in DOMAIN s}

VARIABLES
    aliases,     \* bundle_modules: aliases, name -> canonicalized target (NoPath: canonicalize fails)
    aliasOrder,  \* the iteration order of the HashMap aliases
    next,        \* index in aliasOrder of the entry the loop of bundle_modules is at
    modules,     \* bundle_modules: modules, path -> Module
    load_order,  \* bundle_modules: load_order
    visiting,    \* the HashSet handed to load_module_recursive
    stack,       \* the active calls of load_module_recursive, innermost last
    err,         \* the error being returned, or NoErr
    backEdges,   \* history: <<importer, path>> of the calls skipped by the circular check
    pc,          \* "load", "noop", "build", "unwind", "failed", "eval", "host"
    bundle,      \* the emitted bundle: registry, aliasTable, eager
    cache,       \* JS: __cache, id -> module object
    jsStack,     \* JS: the running initializers, innermost last
    site,        \* JS: the statement at the bottom of the JS stack
    globals,     \* JS: globalThis.__modules
    nextObj,     \* JS: the next fresh object identity
    initCount,   \* history: id -> number of times its initializer was started
    returned,    \* history: id -> the exports objects require(id) has returned
    cyclic,      \* history: ids whose require returned while their initializer ran
    evalState,   \* "none", "running", "ok", "threw"
    last,        \* the outcome of the last host call of __requireAlias
    bundled_runtime,  \* ModuleLoader: bundled_runtime, an Option
    source_text, \* transform_module: source, the text of one module
    code,        \* transform_module: code, the rewritten text
    outcome,     \* what evaluating the registry entry of code gave
    tpc,         \* "idle", "source", "transformed", "evaluated"
    config,      \* parse_config: content, the text of rasen.config.js
    table,       \* parse_config: aliases, the table returned
    cpc,         \* "idle", "text", "parsed"
    found,       \* load_module_recursive: imports, what parse_imports returned
    class_string,  \* tw_parser::parse: class_string, as its classes
    tw_pos,      \* tw_parser::parse: the class the loop is at
    styles,      \* tw_parser::parse: styles
    initialized, \* JsRuntime: initialized
    init_guard,  \* JsRuntime: the call holding the write lock of initialized
    context,     \* JsRuntime: what the JS context has evaluated
    calls,       \* the calls of execute_with_modules, and where each is
    handlers,    \* EventManagerInner: handlers
    needs_render,  \* EventManagerInner: needs_render
    lock,        \* EventManager: the RwLock, its writer and its readers
    threads,     \* the threads using the manager, and where each is
    HANDLER_ID_COUNTER,  \* event_manager: HANDLER_ID_COUNTER
    em_history   \* history: ids issued, render requests made and taken

vars == <<aliases, aliasOrder, next, modules, load_order, visiting, stack, err, backEdges, pc,
          bundle, cache, jsStack, site, globals, nextObj, initCount, returned, cyclic,
          evalState, last, bundled_runtime, source_text, code, outcome, tpc, config, table, cpc,
          found, class_string, tw_pos, styles, initialized, init_guard, context, calls,
          handlers, needs_render, lock, threads, HANDLER_ID_COUNTER, em_history>>

buildVars == <<modules, load_order, visiting, stack, next, err, backEdges>>
jsVars == <<bundle, cache, jsStack, site, globals, nextObj, initCount, returned, cyclic,
            evalState, last>>
bundlerVars == <<aliases, aliasOrder, pc, buildVars, jsVars, bundled_runtime>>
textVars == <<source_text, code, outcome, tpc>>
configVars == <<config, table, cpc>>
twVars == <<class_string, tw_pos, styles>>
jsrtVars == <<initialized, init_guard, context, calls>>
emVars == <<handlers, needs_render, lock, threads, HANDLER_ID_COUNTER, em_history>>
\* the state outside the module loader
sideVars == <<found, twVars, jsrtVars, emVars>>

NoErr == [kind |-> "none", who |-> NoPath]
NoSite == [kind |-> "none", name |-> "", k |-> 0, id |-> ""]
NoCall == [name |-> "", outcome |-> "none", value |-> 0]
NoBundle == [registry |-> <<>>, aliasTable |-> EmptyFn, eager |-> <<>>]
\* Option<String>: None, and Some(bundle)
None == [some |-> FALSE, text |-> NoBundle]
Some(b) == [some |-> TRUE, text |-> b]

(***************************************************************************)
(* Resolution.                                                             *)
(***************************************************************************)
\* every import specifier a source may hold: a relative one, a configured name, another name
Specs == FileSpecs \cup DOMAIN aliases \cup {Ghost}

\* create_resolver: the alias list holds the aliases whose target canonicalizes
AliasList == {n \in DOMAIN aliases : aliases[n] # NoPath}

\* resolve_import with the resolver of create_resolver
resolve_import(spec) ==
    IF spec \in AliasList THEN aliases[spec]
    ELSE IF spec \in FileSpecs
         THEN AllPaths[CHOOSE i \in PathIdx : AllFileSpecs[i] = spec]
         ELSE NoPath

\* transform_module, "Create resolver just for path mapping": a resolver without aliases
TransformResolve(spec) ==
    IF spec \in FileSpecs
    THEN AllPaths[CHOOSE i \in PathIdx : AllFileSpecs[i] = spec]
    ELSE NoPath

\* load_module_recursive, "Resolve dependencies": the resolved imports, in order
RECURSIVE ResolveAll(_)
ResolveAll(imports) ==
    IF imports = <<>> THEN <<>>
    ELSE LET r == resolve_import(Head(imports))
         IN (IF r # NoPath THEN <<r>> ELSE <<>>) \o ResolveAll(Tail(imports))

(***************************************************************************)
(* The graph builder.                                                      *)
(***************************************************************************)
Top == stack[Len(stack)]

\* number of import statements read so far
RECURSIVE SumLen(_)
SumLen(S) == IF S = {} THEN 0
             ELSE LET x == CHOOSE y \in S : TRUE IN Len(x[2]) + SumLen(S \ {x})
ImportsRead ==
    SumLen({<<p, modules[p].source>> : p \in DOMAIN modules}
           \cup {<<stack[i].path, stack[i].source>> : i \in DOMAIN stack})

\* The names of the files carry no meaning, so the file tree is named in the order the
\* run meets its files: a path that no alias target and no import seen so far names is
\* the first unused one of AllPaths.
IdxOf(path) == IF path \in Paths THEN CHOOSE i \in PathIdx : AllPaths[i] = path ELSE 0
MaxIdx(S) == IF S = {} THEN 0 ELSE CHOOSE i \in S : \A j \in S : j <= i
Seen ==
    MaxIdx({IdxOf(aliases[n]) : n \in DOMAIN aliases}
           \cup UNION {{IdxOf(d) : d \in Range(modules[p].dependencies)} : p \in DOMAIN modules}
           \cup UNION {{IdxOf(d) : d \in Range(stack[i].dependencies)} : i \in DOMAIN stack})
RECURSIVE MeetsFrom(_, _, _)
MeetsFrom(paths, k, m) ==
    IF k > Len(paths) THEN TRUE
    ELSE /\ IdxOf(paths[k]) <= m + 1
         /\ MeetsFrom(paths, k + 1, IF IdxOf(paths[k]) > m THEN IdxOf(paths[k]) ELSE m)
InMeetingOrder(paths, m) == MeetsFrom(paths, 1, m)

\* a loop over the dependencies that leaves the last one out
DepsDone_early(f) == f.i >= Len(f.dependencies)

\* "for dep in &dependencies" is over: every dependency of the call was loaded
DepsDone(f) == f.i > Len(f.dependencies)

\* the path the next call of load_module_recursive is made with, NoPath if none
Callee ==
    IF stack = <<>>
    THEN IF next <= Len(aliasOrder) THEN aliases[aliasOrder[next]] ELSE NoPath
    ELSE IF ~DepsDone(Top) THEN Top.dependencies[Top.i] ELSE NoPath

\* the HashSet the callee gets: a fresh one for an entry, the caller's otherwise
CalleeVisiting == IF stack = <<>> THEN {} ELSE visiting

\* a builder that never finds a module loaded
AlreadyLoaded_never(path) == FALSE

\* "Already loaded?"
AlreadyLoaded(path) == path \in DOMAIN modules

\* a builder without the circular check
IsVisiting_never(path) == FALSE

\* "Circular dependency check"
IsVisiting(path) == path \in CalleeVisiting

\* the caller after the call returned Ok: the next loop iteration
Returned(stk) ==
    IF stk = <<>> THEN stk
    ELSE [stk EXCEPT ![Len(stk)].i = @ + 1]

\* a loader that stores an empty bundle when there is no configuration file
ConfigMissing_emptyBundle ==
    /\ pc = "load" /\ aliases = EmptyFn
    /\ pc' = "noop"
    /\ bundled_runtime' = Some(NoBundle)
    /\ UNCHANGED <<aliases, aliasOrder, buildVars, jsVars, textVars, configVars, sideVars>>

\* load_modules: rasen.config.js does not exist, return Ok(())
ConfigMissing ==
    /\ pc = "load" /\ aliases = EmptyFn
    /\ pc' = "noop"
    /\ UNCHANGED <<aliases, aliasOrder, buildVars, jsVars, bundled_runtime>>
    /\ UNCHANGED <<textVars, configVars, sideVars>>

\* load_modules: the configuration is read and parsed to aliases, bundle_modules is entered
ConfigFound ==
    /\ pc = "load"
    /\ pc' = "build"
    /\ UNCHANGED <<aliases, aliasOrder, buildVars, jsVars, bundled_runtime>>
    /\ UNCHANGED <<textVars, configVars, sideVars>>

\* an entry loop that passes over an alias whose target does not canonicalize
EntryFail_skip ==
    /\ pc = "build" /\ stack = <<>> /\ next <= Len(aliasOrder)
    /\ aliases[aliasOrder[next]] = NoPath
    /\ next' = next + 1
    /\ UNCHANGED <<aliases, aliasOrder, modules, load_order, visiting, stack, err, backEdges, pc>>
    /\ UNCHANGED <<jsVars, bundled_runtime, textVars, configVars, sideVars>>

\* bundle_modules, the entry loop: canonicalize fails
EntryFail ==
    /\ pc = "build" /\ stack = <<>> /\ next <= Len(aliasOrder)
    /\ aliases[aliasOrder[next]] = NoPath
    /\ err' = [kind |-> "entry", who |-> aliasOrder[next]]
    /\ pc' = "failed"
    /\ UNCHANGED <<aliases, aliasOrder, next, modules, load_order, visiting, stack, backEdges>>
    /\ UNCHANGED <<jsVars, bundled_runtime, textVars, configVars, sideVars>>

\* load_module_recursive returns at once: already loaded, or on the DFS stack
LoadSkip ==
    /\ pc = "build" /\ Callee # NoPath
    /\ AlreadyLoaded(Callee) \/ IsVisiting(Callee)
    /\ stack' = Returned(stack)
    /\ next' = IF stack = <<>> THEN next + 1 ELSE next
    /\ visiting' = CalleeVisiting
    /\ backEdges' = IF ~AlreadyLoaded(Callee) /\ stack # <<>>
                    THEN backEdges \cup {<<Top.path, Callee>>}
                    ELSE backEdges
    /\ UNCHANGED <<aliases, aliasOrder, modules, load_order, err, pc>>
    /\ UNCHANGED <<jsVars, bundled_runtime, textVars, configVars, sideVars>>

\* load_module_recursive marks the path, reads and parses the file, resolves its imports
LoadRead ==
    /\ pc = "build" /\ Callee # NoPath
    /\ ~AlreadyLoaded(Callee) /\ ~IsVisiting(Callee)
    /\ \E imports \in SeqUpTo(Specs, MaxImports - ImportsRead) :
          /\ InMeetingOrder([k \in DOMAIN imports |-> TransformResolve(imports[k])], Seen)
          /\ stack' = Append(stack, [path |-> Callee, source |-> imports,
                                     dependencies |-> ResolveAll(imports), i |-> 1])
    /\ visiting' = CalleeVisiting \cup {Callee}
    /\ UNCHANGED <<aliases, aliasOrder, next, modules, load_order, err, backEdges, pc>>
    /\ UNCHANGED <<jsVars, bundled_runtime, textVars, configVars, sideVars>>

\* load_module_recursive marks the path and fails to read the file
LoadReadFail ==
    /\ pc = "build" /\ Callee # NoPath
    /\ ~AlreadyLoaded(Callee) /\ ~IsVisiting(Callee)
    /\ visiting' = CalleeVisiting \cup {Callee}
    /\ err' = [kind |-> "read", who |-> Callee]
    /\ pc' = "unwind"
    /\ UNCHANGED <<aliases, aliasOrder, next, modules, load_order, stack, backEdges>>
    /\ UNCHANGED <<jsVars, bundled_runtime, textVars, configVars, sideVars>>

\* the module an active call records when its dependencies are loaded
NewModule(f) == [path |-> f.path, source |-> f.source, dependencies |-> f.dependencies]

\* a builder that puts a module in front of the modules loaded so far
PushOrder_front(order, path) == <<path>> \o order

\* load_order.push(path.clone())
PushOrder(order, path) == Append(order, path)

\* a return that leaves the path of the finished call marked as being visited
LoadFinish_keepMark ==
    /\ pc = "build" /\ stack # <<>> /\ DepsDone(Top)
    /\ modules' = (Top.path :> NewModule(Top)) @@ modules
    /\ load_order' = PushOrder(load_order, Top.path)
    /\ stack' = Returned(SubSeq(stack, 1, Len(stack) - 1))
    /\ next' = IF Len(stack) = 1 THEN next + 1 ELSE next
    /\ UNCHANGED <<aliases, aliasOrder, visiting, err, backEdges, pc>>
    /\ UNCHANGED <<jsVars, bundled_runtime, textVars, configVars, sideVars>>

\* load_module_recursive, "Add this module": insert, push, unmark, return Ok
LoadFinish ==
    /\ pc = "build" /\ stack # <<>> /\ DepsDone(Top)
    /\ modules' = (Top.path :> NewModule(Top)) @@ modules
    /\ load_order' = PushOrder(load_order, Top.path)
    /\ visiting' = visiting \ {Top.path}
    /\ stack' = Returned(SubSeq(stack, 1, Len(stack) - 1))
    /\ next' = IF Len(stack) = 1 THEN next + 1 ELSE next
    /\ UNCHANGED <<aliases, aliasOrder, err, backEdges, pc>>
    /\ UNCHANGED <<jsVars, bundled_runtime, textVars, configVars, sideVars>>

\* a ? that replaces the error by one naming the caller it leaves
Propagate_rename ==
    /\ pc = "unwind"
    /\ IF stack # <<>>
       THEN /\ stack' = SubSeq(stack, 1, Len(stack) - 1)
            /\ err' = [kind |-> err.kind, who |-> stack[Len(stack)].path]
            /\ pc' = pc
       ELSE /\ stack' = stack
            /\ err' = err
            /\ pc' = "failed"
    /\ UNCHANGED <<aliases, aliasOrder, next, modules, load_order, visiting, backEdges>>
    /\ UNCHANGED <<jsVars, bundled_runtime, textVars, configVars, sideVars>>

\* a ? that lets go of the error and stores what was bundled before the failure
Propagate_partial ==
    /\ pc = "unwind"
    /\ IF stack # <<>>
       THEN /\ stack' = SubSeq(stack, 1, Len(stack) - 1)
            /\ pc' = pc
            /\ UNCHANGED <<modules, bundled_runtime>>
       ELSE /\ stack' = stack
            /\ pc' = "failed"
            /\ modules' = modules
            /\ bundled_runtime' = Some([registry |-> [k \in DOMAIN load_order |->
                                                       [id |-> load_order[k], body |-> <<>>]],
                                        aliasTable |-> EmptyFn, eager |-> <<>>])
    /\ UNCHANGED <<aliases, aliasOrder, next, load_order, visiting, err, backEdges>>
    /\ UNCHANGED <<jsVars, textVars, configVars, sideVars>>

\* the ? operator: the error leaves one call of load_module_recursive, then bundle_modules,
\* then load_modules, before bundled_runtime is assigned
Propagate ==
    /\ pc = "unwind"
    /\ IF stack # <<>>
       THEN /\ stack' = SubSeq(stack, 1, Len(stack) - 1)
            /\ pc' = pc
       ELSE /\ stack' = stack
            /\ pc' = "failed"
    /\ UNCHANGED <<aliases, aliasOrder, next, modules, load_order, visiting, err, backEdges>>
    /\ UNCHANGED <<jsVars, bundled_runtime, textVars, configVars, sideVars>>

\* a transformer that leaves the argument empty when the specifier has no path
RequireId_blank(spec) ==
    IF TransformResolve(spec) # NoPath THEN TransformResolve(spec) ELSE ""

(***************************************************************************)
(* The bundle emitter.                                                     *)
(***************************************************************************)
\* transform_module: spec_to_path.get(spec).cloned().unwrap_or(spec.to_string())
RequireId(spec) ==
    IF TransformResolve(spec) # NoPath THEN TransformResolve(spec) ELSE spec

\* transform_module: the ids of the require calls of the rewritten source, in order
transform_module(source) == [k \in DOMAIN source |-> RequireId(source[k])]

\* an emitter that walks the modules in another order than load_order
EmitRegistry_mapOrder ==
    [k \in DOMAIN load_order |->
        [id |-> load_order[Len(load_order) + 1 - k],
         body |-> transform_module(modules[load_order[Len(load_order) + 1 - k]].source)]]

\* bundle_modules, "Define modules in dependency order": one entry per path of load_order
EmitRegistry ==
    [k \in DOMAIN load_order |->
        [id |-> load_order[k], body |-> transform_module(modules[load_order[k]].source)]]

\* bundle_modules, "Map aliases to their canonical paths": the object literal __aliases
EmitAliases == [n \in AliasList |-> aliases[n]]

\* an emitter that registers the first alias only
EmitEager_first(names) ==
    IF names = <<>> \/ aliases[Head(names)] = NoPath THEN <<>>
    ELSE <<[name |-> Head(names), id |-> aliases[Head(names)]]>>

\* bundle_modules, "Register aliased modules to global __modules": the eager requires
RECURSIVE EmitEager(_)
EmitEager(names) ==
    IF names = <<>> THEN <<>>
    ELSE (IF aliases[Head(names)] # NoPath
          THEN <<[name |-> Head(names), id |-> aliases[Head(names)]]>>
          ELSE <<>>) \o EmitEager(Tail(names))

\* bundle_modules after the entry loop: the bundle text, then its evaluation starts
Emit ==
    /\ pc = "build" /\ stack = <<>> /\ next > Len(aliasOrder)
    /\ bundle' = [registry |-> EmitRegistry, aliasTable |-> EmitAliases,
                  eager |-> EmitEager(aliasOrder)]
    /\ pc' = "eval"
    /\ evalState' = "running"
    /\ site' = [kind |-> "eager", name |-> "", k |-> 1, id |-> ""]
    /\ bundled_runtime' = Some(bundle')
    /\ UNCHANGED <<aliases, aliasOrder>>
    /\ UNCHANGED <<buildVars, textVars, configVars, sideVars>>
    /\ UNCHANGED <<cache, jsStack, globals, nextObj, initCount, returned, cyclic, last>>

(***************************************************************************)
(* The runtime of the emitted bundle.                                      *)
(***************************************************************************)
\* the keys every JS object literal inherits from Object.prototype
ObjectPrototypeKeys == {"constructor"}
\* String(Object), the property key the inherited value turns into
ProtoId == "function Object() { [native code] }"
Undefined == "<undefined>"

\* the JS property read obj[key] on an object literal
JsGet(obj, key) ==
    IF key \in DOMAIN obj THEN obj[key]
    ELSE IF key \in ObjectPrototypeKeys THEN ProtoId
    ELSE Undefined

\* the names the host may hand to __requireAlias
LookupNames == AliasNames \cup ObjectPrototypeKeys

\* the ids __modules has an entry for
RegistryIds == {bundle.registry[k].id : k \in DOMAIN bundle.registry}
BodyOf(id) == bundle.registry[CHOOSE k \in DOMAIN bundle.registry : bundle.registry[k].id = id].body

JsTop == jsStack[Len(jsStack)]
Running == {jsStack[k].id : k \in DOMAIN jsStack}

\* the argument of the __require call about to be made, Undefined if none
Pending ==
    IF jsStack # <<>>
    THEN IF JsTop.pos <= Len(BodyOf(JsTop.id)) THEN BodyOf(JsTop.id)[JsTop.pos] ELSE Undefined
    ELSE IF site.kind = "eager"
         THEN IF site.k <= Len(bundle.eager) THEN bundle.eager[site.k].id ELSE Undefined
         ELSE IF site.kind = "alias" THEN site.id ELSE Undefined

\* a runtime without the cache check
CacheHit_never(id) == FALSE

\* a runtime that caches a module when its initializer has returned
CacheHit_afterInit(id) == id \in DOMAIN cache /\ id \notin Running

\* __require: if (__cache[id])
CacheHit(id) == id \in DOMAIN cache

Count(id) == IF id \in DOMAIN initCount THEN initCount[id] ELSE 0
ReturnedOf(id) == IF id \in DOMAIN returned THEN returned[id] ELSE {}

\* __require(id) returns value to the statement that called it
Deliver(id, value, stk) ==
    /\ returned' = (id :> (ReturnedOf(id) \cup {value})) @@ returned
    /\ IF stk # <<>>
       THEN /\ jsStack' = [stk EXCEPT ![Len(stk)].pos = @ + 1]
            /\ UNCHANGED <<site, globals, last>>
       ELSE /\ jsStack' = stk
            /\ IF site.kind = "eager"
               THEN /\ globals' = (bundle.eager[site.k].name :> value) @@ globals
                    /\ site' = [site EXCEPT !.k = @ + 1]
                    /\ last' = last
               ELSE /\ last' = [name |-> site.name, outcome |-> "returned", value |-> value]
                    /\ site' = [kind |-> "none", name |-> "", k |-> 0, id |-> ""]
                    /\ globals' = globals

\* __require: the id is cached, return __cache[id].exports
RequireCached ==
    /\ pc \in {"eval", "host"} /\ Pending # Undefined
    /\ CacheHit(Pending)
    /\ Deliver(Pending, cache[Pending].exports, jsStack)
    /\ cyclic' = IF Pending \in Running THEN cyclic \cup {Pending} ELSE cyclic
    /\ UNCHANGED <<aliases, aliasOrder, pc, bundle, cache, nextObj, initCount, evalState>>
    /\ UNCHANGED <<buildVars, bundled_runtime, textVars, configVars, sideVars>>

\* __require: a new module object is cached, then its initializer is called
RequireInit ==
    /\ pc \in {"eval", "host"} /\ Pending # Undefined
    /\ ~CacheHit(Pending)
    /\ Pending \in RegistryIds
    /\ cache' = (Pending :> [exports |-> nextObj]) @@ cache
    /\ nextObj' = nextObj + 1
    /\ initCount' = (Pending :> (Count(Pending) + 1)) @@ initCount
    /\ jsStack' = Append(jsStack, [id |-> Pending, pos |-> 1])
    /\ UNCHANGED <<aliases, aliasOrder, pc, bundle, site, globals, returned, cyclic,
                   evalState, last>>
    /\ UNCHANGED <<buildVars, bundled_runtime, textVars, configVars, sideVars>>

\* __require: a new module object is cached, __modules[id] is undefined, the call throws
RequireMissing ==
    /\ pc \in {"eval", "host"} /\ Pending # Undefined
    /\ ~CacheHit(Pending)
    /\ Pending \notin RegistryIds
    /\ cache' = (Pending :> [exports |-> nextObj]) @@ cache
    /\ nextObj' = nextObj + 1
    /\ jsStack' = <<>>
    /\ site' = [kind |-> "none", name |-> "", k |-> 0, id |-> ""]
    /\ IF site.kind = "eager"
       THEN /\ evalState' = "threw"
            /\ pc' = "host"
            /\ last' = last
       ELSE /\ last' = [name |-> site.name, outcome |-> "TypeError", value |-> 0]
            /\ UNCHANGED <<evalState, pc>>
    /\ UNCHANGED <<aliases, aliasOrder, bundle, globals, initCount, returned, cyclic>>
    /\ UNCHANGED <<buildVars, bundled_runtime, textVars, configVars, sideVars>>

\* the initializer of the innermost module ends, __require returns module.exports
InitReturn ==
    /\ pc \in {"eval", "host"} /\ jsStack # <<>> /\ Pending = Undefined
    /\ Deliver(JsTop.id, cache[JsTop.id].exports, SubSeq(jsStack, 1, Len(jsStack) - 1))
    /\ UNCHANGED <<aliases, aliasOrder, pc, bundle, cache, nextObj, initCount, cyclic,
                   evalState>>
    /\ UNCHANGED <<buildVars, bundled_runtime, textVars, configVars, sideVars>>

\* the function of the bundle returns: every alias is registered
EvalDone ==
    /\ pc = "eval" /\ jsStack = <<>> /\ site.kind = "eager" /\ Pending = Undefined
    /\ evalState' = "ok"
    /\ pc' = "host"
    /\ site' = [kind |-> "none", name |-> "", k |-> 0, id |-> ""]
    /\ UNCHANGED <<aliases, aliasOrder, bundle, cache, jsStack, globals, nextObj, initCount,
                   returned, cyclic, last>>
    /\ UNCHANGED <<buildVars, bundled_runtime, textVars, configVars, sideVars>>

\* globalThis.__requireAlias(name), up to its call of __require; the host runs no
\* script after a bundle whose evaluation threw (js_runtime.rs, execute_with_modules_internal)
HostLookup ==
    /\ pc = "host" /\ site.kind = "none" /\ evalState = "ok"
    /\ \E name \in LookupNames :
          IF JsGet(bundle.aliasTable, name) = Undefined
          THEN /\ last' = [name |-> name, outcome |-> "UnknownModule", value |-> 0]
               /\ site' = site
          ELSE /\ site' = [kind |-> "alias", name |-> name, k |-> 0,
                           id |-> JsGet(bundle.aliasTable, name)]
               /\ last' = last
    /\ UNCHANGED <<aliases, aliasOrder, pc, bundle, cache, jsStack, globals, nextObj,
                   initCount, returned, cyclic, evalState>>
    /\ UNCHANGED <<buildVars, bundled_runtime, textVars, configVars, sideVars>>

(***************************************************************************)
(* The source transformer on text.  A source is the sequence of its        *)
(* tokens, written with single blanks between them; a string literal is    *)
(* the token of its content.                                               *)
(***************************************************************************)
\* the binding names of the sources
Names == {"value", "fromJson", "b"}
\* str::contains("from") on a token
HasFrom(tok) == tok \in {"from", "fromJson"}
\* (const|let|var|function|class)
DeclKeywords == {"const", "let", "var", "function", "class"}
Punct == {"{", "}", "(", ")", ";", ",", "=", ".", "*"}
\* the string literals: specifiers before the rewriting, paths or specifiers after it
StrLits == Range(AllFileSpecs) \cup Range(AllPaths) \cup {Ghost}
\* \w+
IsWord(tok) == tok \notin Punct \cup StrLits

From(t, k) == SubSeq(t, k, Len(t))
\* the index of the first token tok of t, 0 if there is none
FirstOf(t, tok) ==
    IF \E k \in DOMAIN t : t[k] = tok
    THEN CHOOSE k \in DOMAIN t : t[k] = tok /\ \A j \in 1..(k - 1) : t[j] # tok
    ELSE 0

\* names.split(','), each part trimmed
RECURSIVE SplitComma(_)
SplitComma(t) ==
    IF FirstOf(t, ",") = 0 THEN <<t>>
    ELSE <<SubSeq(t, 1, FirstOf(t, ",") - 1)>> \o SplitComma(From(t, FirstOf(t, ",") + 1))

\* n.split(" as "): two parts give (first, second), anything else gives (n, n)
AsPair(part) ==
    IF Cardinality({k \in DOMAIN part : part[k] = "as"}) = 1
       /\ FirstOf(part, "as") \notin {1, Len(part)}
    THEN <<SubSeq(part, 1, FirstOf(part, "as") - 1), From(part, FirstOf(part, "as") + 1)>>
    ELSE <<part, part>>

\* assigns.join("; ")
RECURSIVE JoinSemi(_)
JoinSemi(parts) ==
    IF parts = <<>> THEN <<>>
    ELSE IF Len(parts) = 1 THEN parts[1]
    ELSE parts[1] \o <<";">> \o JoinSemi(Tail(parts))

\* export\s*\{([^}]+)\} at the head of t: the index of the closing brace, 0 for no match
BraceMatch(t) ==
    IF Len(t) >= 4 /\ t[1] = "export" /\ t[2] = "{" /\ FirstOf(t, "}") >= 4
    THEN FirstOf(t, "}")
    ELSE 0

\* re_reexport: export { a, b as c } from "m"
RECURSIVE ReexportPass(_)
ReexportPass(t) ==
    IF t = <<>> THEN <<>>
    ELSE LET j == BraceMatch(t)
         IN IF j > 0 /\ Len(t) >= j + 2 /\ t[j + 1] = "from" /\ t[j + 2] \in StrLits
            THEN LET parts == SplitComma(SubSeq(t, 3, j - 1))
                     assign(p) == <<"exports", ".">> \o AsPair(p)[2] \o
                                  <<"=", "require", "(", RequireId(t[j + 2]), ")", ".">> \o
                                  AsPair(p)[1]
                 IN JoinSemi([k \in DOMAIN parts |-> assign(parts[k])]) \o
                    ReexportPass(From(t, j + 3))
            ELSE <<Head(t)>> \o ReexportPass(Tail(t))

\* re_star_export: export * from "m"
RECURSIVE StarExportPass(_)
StarExportPass(t) ==
    IF t = <<>> THEN <<>>
    ELSE IF Len(t) >= 4 /\ t[1] = "export" /\ t[2] = "*" /\ t[3] = "from" /\ t[4] \in StrLits
         THEN <<"Object.assign", "(", "exports", ",", "require", "(", RequireId(t[4]), ")", ")">>
              \o StarExportPass(From(t, 5))
         ELSE <<Head(t)>> \o StarExportPass(Tail(t))

\* re_export_names, "Skip if this is a re-export": full_match.contains("from")
SkipList(t, j) == \E k \in 1..j : HasFrom(t[k])

\* re_export_names: export { a, b as c }
RECURSIVE ExportNamesPass(_)
ExportNamesPass(t) ==
    IF t = <<>> THEN <<>>
    ELSE LET j == BraceMatch(t)
         IN IF j > 0
            THEN (IF SkipList(t, j)
                  THEN SubSeq(t, 1, j)
                  ELSE LET parts == SplitComma(SubSeq(t, 3, j - 1))
                           assign(p) == <<"exports", ".">> \o AsPair(p)[2] \o <<"=">> \o
                                        AsPair(p)[1]
                       IN JoinSemi([k \in DOMAIN parts |-> assign(parts[k])]))
                 \o ExportNamesPass(From(t, j + 1))
            ELSE <<Head(t)>> \o ExportNamesPass(Tail(t))

\* re_export_decl: format!("{} {}; exports.{} = {}", keyword, name, name, name)
DeclReplacement(keyword, name) == <<keyword, name, ";", "exports", ".", name, "=", name>>

\* re_export_decl: export\s+(const|let|var|function|class)\s+(\w+)
RECURSIVE ExportDeclPass(_)
ExportDeclPass(t) ==
    IF t = <<>> THEN <<>>
    ELSE IF Len(t) >= 3 /\ t[1] = "export" /\ t[2] \in DeclKeywords /\ IsWord(t[3])
         THEN DeclReplacement(t[2], t[3]) \o ExportDeclPass(From(t, 4))
         ELSE <<Head(t)>> \o ExportDeclPass(Tail(t))

\* code.replace("export default", "exports.default =")
RECURSIVE ExportDefaultPass(_)
ExportDefaultPass(t) ==
    IF t = <<>> THEN <<>>
    ELSE IF Len(t) >= 2 /\ t[1] = "export" /\ t[2] = "default"
         THEN <<"exports", ".", "default", "=">> \o ExportDefaultPass(From(t, 3))
         ELSE <<Head(t)>> \o ExportDefaultPass(Tail(t))

\* transform_module, the export passes in the order of the code
TransformExports(t) ==
    ExportDefaultPass(ExportDeclPass(ExportNamesPass(StarExportPass(ReexportPass(t)))))

(***************************************************************************)
(* The host's evaluation of a registry entry:                              *)
(* function(module, exports, require) { <transformed source> } in strict   *)
(* mode, for the statements the sources are made of.                       *)
(***************************************************************************)
Numbers == {"42", "7"}
\* JS values
Num(tok) == [t |-> "number", v |-> tok, m |-> ""]
Undef == [t |-> "undefined", v |-> "", m |-> ""]
Fn(name) == [t |-> "function", v |-> name, m |-> ""]
Class(name) == [t |-> "class", v |-> name, m |-> ""]
\* the property name of the exports of the module id, a value of that other module
Imported(id, name) == [t |-> "import", v |-> name, m |-> id]

IsIdent(tok) == tok \in Names
IsProp(tok) == tok \in Names \cup {"default"}

\* the length of the expression at the head of t, 0 if there is none
RECURSIVE ExprLen(_)
ExprLen(t) ==
    IF t = <<>> THEN 0
    ELSE IF Len(t) >= 3 /\ IsIdent(t[1]) /\ t[2] = "="
         THEN (IF ExprLen(From(t, 3)) = 0 THEN 0 ELSE 2 + ExprLen(From(t, 3)))
    ELSE IF Len(t) >= 5 /\ t[1] = "exports" /\ t[2] = "." /\ IsProp(t[3]) /\ t[4] = "="
         THEN (IF ExprLen(From(t, 5)) = 0 THEN 0 ELSE 4 + ExprLen(From(t, 5)))
    ELSE IF t[1] \in Numbers THEN 1
    ELSE IF Len(t) >= 4 /\ t[1] = "require" /\ t[2] = "(" /\ t[3] \in StrLits /\ t[4] = ")"
         THEN (IF Len(t) >= 6 /\ t[5] = "." /\ IsProp(t[6]) THEN 6 ELSE 4)
    ELSE IF Len(t) >= 9 /\ SubSeq(t, 1, 6) = <<"Object.assign", "(", "exports", ",", "require", "(">>
            /\ t[7] \in StrLits /\ t[8] = ")" /\ t[9] = ")"
         THEN 9
    ELSE IF IsIdent(t[1]) THEN 1
    ELSE 0

\* the length of the statement at the head of t, 0 for a syntax error
StmtLen(t) ==
    IF t = <<>> THEN 0
    ELSE IF t[1] = ";" THEN 1
    ELSE IF t[1] \in {"const", "let", "var"}
         THEN IF Len(t) >= 3 /\ IsIdent(t[2]) /\ t[3] = ";"
              THEN (IF t[1] = "const" THEN 0 ELSE 3)  \* const needs an initializer
              ELSE IF Len(t) >= 5 /\ IsIdent(t[2]) /\ t[3] = "=" /\ ExprLen(From(t, 4)) > 0
                      /\ Len(t) > 3 + ExprLen(From(t, 4))
                      /\ t[4 + ExprLen(From(t, 4))] = ";"
                   THEN 4 + ExprLen(From(t, 4))
                   ELSE 0
    ELSE IF t[1] = "function"
         THEN (IF Len(t) >= 6 /\ IsIdent(t[2]) /\ SubSeq(t, 3, 6) = <<"(", ")", "{", "}">>
               THEN 6 ELSE 0)
    ELSE IF t[1] = "class"
         THEN (IF Len(t) >= 4 /\ IsIdent(t[2]) /\ SubSeq(t, 3, 4) = <<"{", "}">>
               THEN 4 ELSE 0)
    ELSE IF ExprLen(t) > 0 /\ (Len(t) = ExprLen(t) \/ t[ExprLen(t) + 1] \in {";", "}"})
         THEN (IF Len(t) > ExprLen(t) /\ t[ExprLen(t) + 1] = ";"
               THEN ExprLen(t) + 1 ELSE ExprLen(t))
    ELSE 0

\* the whole text is a sequence of statements
RECURSIVE ParsesOk(_)
ParsesOk(t) ==
    \/ t = <<>>
    \/ StmtLen(t) > 0 /\ ParsesOk(From(t, StmtLen(t) + 1))

\* the state of a run
Fail(st, what) == [st EXCEPT !.status = what]
Bind(st, kind, name, value) ==
    [st EXCEPT !.env = (name :> [kind |-> kind, value |-> value]) @@ st.env]

\* the exports of another module of the bundle, seen through require
ModuleExports(id) == [n \in Names |-> Imported(id, n)]

\* the value of an expression, and its effects on the bindings and on exports
RECURSIVE EvalExpr(_, _)
EvalExpr(t, st) ==
    IF Len(t) >= 3 /\ IsIdent(t[1]) /\ t[2] = "="
    THEN LET r == EvalExpr(From(t, 3), st)
         IN IF r.status # "ok" THEN r
            ELSE IF t[1] \notin DOMAIN r.env THEN Fail(r, "ReferenceError")
            ELSE IF r.env[t[1]].kind = "const" THEN Fail(r, "TypeError")
            ELSE Bind(r, r.env[t[1]].kind, t[1], r.val)
    ELSE IF Len(t) >= 5 /\ t[1] = "exports" /\ t[4] = "="
    THEN LET r == EvalExpr(From(t, 5), st)
         IN IF r.status # "ok" THEN r
            ELSE [r EXCEPT !.exports = (t[3] :> r.val) @@ r.exports]
    ELSE IF t[1] \in Numbers THEN [st EXCEPT !.val = Num(t[1])]
    ELSE IF t[1] = "require"
    THEN IF t[3] \notin Range(AllPaths) THEN Fail(st, "TypeError")
         ELSE IF Len(t) >= 6 THEN [st EXCEPT !.val = Imported(t[3], t[6])]
         ELSE [st EXCEPT !.val = Imported(t[3], "*")]
    ELSE IF t[1] = "Object.assign"
    THEN IF t[7] \notin Range(AllPaths) THEN Fail(st, "TypeError")
         ELSE [st EXCEPT !.exports = ModuleExports(t[7]) @@ st.exports]
    ELSE IF t[1] \in DOMAIN st.env THEN [st EXCEPT !.val = st.env[t[1]].value]
    ELSE Fail(st, "ReferenceError")

\* the statements of t run in order, until one throws
RECURSIVE Run(_, _)
Run(t, st) ==
    IF t = <<>> \/ st.status # "ok" THEN st
    ELSE LET n == StmtLen(t)
             rest == From(t, n + 1)
         IN IF t[1] = ";" THEN Run(rest, st)
            ELSE IF t[1] \in {"const", "let", "var"}
            THEN IF t[3] = ";" THEN Run(rest, Bind(st, t[1], t[2], Undef))
                 ELSE LET r == EvalExpr(SubSeq(t, 4, n - 1), st)
                      IN IF r.status # "ok" THEN r ELSE Run(rest, Bind(r, t[1], t[2], r.val))
            ELSE IF t[1] = "function" THEN Run(rest, Bind(st, "function", t[2], Fn(t[2])))
            ELSE IF t[1] = "class" THEN Run(rest, Bind(st, "class", t[2], Class(t[2])))
            ELSE Run(rest, EvalExpr(SubSeq(t, 1, ExprLen(t)), st))

\* the outcome of evaluating a bundle whose registry entry holds the text t, and of the
\* first require of that entry: a syntax error anywhere in the bundle stops the whole script
Evaluate(t) ==
    IF ~ParsesOk(t) THEN [status |-> "SyntaxError", exports |-> EmptyFn]
    ELSE LET r == Run(t, [status |-> "ok", env |-> EmptyFn, exports |-> EmptyFn, val |-> Undef])
         IN [status |-> r.status, exports |-> r.exports]

(***************************************************************************)
(* Sources for the transformer: one exporting statement each.              *)
(***************************************************************************)
MaxBindings == 2

\* declarations of the names, for the export lists to refer to
Prelude ==
    <<"let", "value", "=", "42", ";", "let", "fromJson", "=", "7", ";",
      "let", "b", "=", "7", ";">>

\* what follows the name of a declaration: an initializer or none, a body
DeclRest(keyword, init) ==
    IF keyword = "function" THEN <<"(", ")", "{", "}">>
    ELSE IF keyword = "class" THEN <<"{", "}">>
    ELSE IF init THEN <<"=", "42", ";">>
    ELSE <<";">>

\* export const|let|var|function|class NAME ...
DeclSource(keyword, name, init) == <<"export", keyword, name>> \o DeclRest(keyword, init)
DeclSources ==
    {DeclSource(kw, n, TRUE) : kw \in DeclKeywords, n \in Names}
        \cup {DeclSource(kw, n, FALSE) : kw \in {"let", "var"}, n \in Names}

\* a binding of an export list: local, or local as exported
Bindings == [local : Names, exported : Names]
BindingText(bd) ==
    IF bd.local = bd.exported THEN <<bd.local>> ELSE <<bd.local, "as", bd.exported>>
RECURSIVE JoinComma(_)
JoinComma(parts) ==
    IF parts = <<>> THEN <<>>
    ELSE IF Len(parts) = 1 THEN parts[1]
    ELSE parts[1] \o <<",">> \o JoinComma(Tail(parts))
\* the lists of bindings that export each name once
BindingLists ==
    {bs \in SeqUpTo(Bindings, MaxBindings) :
        /\ bs # <<>>
        /\ \A i, j \in DOMAIN bs : i # j => bs[i].exported # bs[j].exported}
\* export { a, b as c }, with a from-clause when from is a specifier
ListSource(bs, from) ==
    Prelude \o <<"export", "{">> \o JoinComma([k \in DOMAIN bs |-> BindingText(bs[k])])
            \o <<"}">> \o (IF from = "" THEN <<>> ELSE <<"from", from>>) \o <<";">>
Froms == {"", AllFileSpecs[1], Ghost}
ListSources == {ListSource(bs, from) : bs \in BindingLists, from \in Froms}

OtherSources ==
    {<<"export", "default", "42", ";">>,
     <<"export", "*", "from", AllFileSpecs[1], ";">>,
     <<"export", "*", "from", Ghost, ";">>}

Sources == DeclSources \cup ListSources \cup OtherSources

NoOutcome == [status |-> "none", exports |-> EmptyFn]

\* bundle_modules, "Define modules in dependency order": the source of a module is rewritten
Transform ==
    /\ tpc = "source"
    /\ code' = TransformExports(source_text)
    /\ tpc' = "transformed"
    /\ UNCHANGED <<source_text, outcome>>
    /\ UNCHANGED <<bundlerVars, configVars, sideVars>>

\* the host evaluates the bundle and requires the entry
EvaluateEntry ==
    /\ tpc = "transformed"
    /\ outcome' = Evaluate(code)
    /\ tpc' = "evaluated"
    /\ UNCHANGED <<source_text, code>>
    /\ UNCHANGED <<bundlerVars, configVars, sideVars>>

(***************************************************************************)
(* parse_config on text.  A configuration text is the sequence of its      *)
(* tokens: comment marks, line ends, and the name/path pairs.              *)
(***************************************************************************)
MaxConfigLen == 4

\* the pairs a text may hold: 'pkg': './a', 'pkg': './b', 'lib': './a'
PairTokens == {"'pkg':'./a'", "'pkg':'./b'", "'lib':'./a'"}
PairName(tok) == IF tok = "'lib':'./a'" THEN "lib" ELSE "pkg"
PairPath(tok) == IF tok = "'pkg':'./b'" THEN "./b" ELSE "./a"
ConfigTokens == {"//", "/*", "*/", "\n"} \cup PairTokens

\* re_line_comment.replace_all(content, ""): //.* ends before the line end
RECURSIVE StripLineComments(_)
StripLineComments(t) ==
    IF t = <<>> THEN <<>>
    ELSE IF t[1] = "//"
         THEN (IF FirstOf(t, "\n") = 0 THEN <<>>
               ELSE StripLineComments(From(t, FirstOf(t, "\n"))))
         ELSE <<Head(t)>> \o StripLineComments(Tail(t))

\* re_block_comment.replace_all(content, ""): /\*[\s\S]*?\*/ ends at the first */
RECURSIVE StripBlockComments(_)
StripBlockComments(t) ==
    IF t = <<>> THEN <<>>
    ELSE IF t[1] = "/*" /\ FirstOf(Tail(t), "*/") > 0
         THEN StripBlockComments(From(t, FirstOf(Tail(t), "*/") + 2))
         ELSE <<Head(t)>> \o StripBlockComments(Tail(t))

\* captures_iter and aliases.insert(name, path): a later pair replaces an earlier one
RECURSIVE InsertPairs(_, _)
InsertPairs(t, tbl) ==
    IF t = <<>> THEN tbl
    ELSE IF t[1] \in PairTokens
         THEN InsertPairs(Tail(t), (PairName(t[1]) :> PairPath(t[1])) @@ tbl)
         ELSE InsertPairs(Tail(t), tbl)

\* parse_config: line comments are removed first, block comments second
parse_config(content) == InsertPairs(StripBlockComments(StripLineComments(content)), EmptyFn)

\* the text as a JS lexer reads it: a comment starts where no other comment is open
RECURSIVE WithoutComments(_)
WithoutComments(t) ==
    IF t = <<>> THEN <<>>
    ELSE IF t[1] = "//"
         THEN (IF FirstOf(t, "\n") = 0 THEN <<>>
               ELSE WithoutComments(From(t, FirstOf(t, "\n"))))
    ELSE IF t[1] = "/*"
         THEN (IF FirstOf(Tail(t), "*/") = 0 THEN <<>>
               ELSE WithoutComments(From(t, FirstOf(Tail(t), "*/") + 2)))
    ELSE <<Head(t)>> \o WithoutComments(Tail(t))

\* every block comment of the text is closed, and no */ stands outside a comment
RECURSIVE WellFormed(_)
WellFormed(t) ==
    IF t = <<>> THEN TRUE
    ELSE IF t[1] = "//"
         THEN (FirstOf(t, "\n") = 0 \/ WellFormed(From(t, FirstOf(t, "\n"))))
    ELSE IF t[1] = "/*"
         THEN FirstOf(Tail(t), "*/") > 0 /\ WellFormed(From(t, FirstOf(Tail(t), "*/") + 2))
    ELSE t[1] # "*/" /\ WellFormed(Tail(t))

Configs == {t \in SeqUpTo(ConfigTokens, MaxConfigLen) : WellFormed(t)}

\* load_modules: the configuration is parsed
ParseConfig ==
    /\ cpc = "text"
    /\ table' = parse_config(config)
    /\ cpc' = "parsed"
    /\ UNCHANGED config
    /\ UNCHANGED <<bundlerVars, textVars, sideVars>>

(***************************************************************************)
(* Specification.                                                          *)
(***************************************************************************)
\* no module text is being transformed, no configuration text is being parsed
TextIdle == source_text = <<>> /\ code = <<>> /\ outcome = NoOutcome /\ tpc = "idle"
ConfigIdle == config = <<>> /\ table = EmptyFn /\ cpc = "idle"

\* nothing outside the module loader is running
ImportsIdle == found = <<>>
TwIdle == class_string = <<>> /\ tw_pos = 0 /\ styles = EmptyFn
JsRuntimeIdle ==
    initialized = FALSE /\ init_guard = 0 /\ context = [state |-> "fresh", holder |-> 0]
    /\ calls = EmptyFn
EventsIdle ==
    /\ handlers = EmptyFn /\ needs_render = FALSE
    /\ lock = [writer |-> "none", readers |-> {}]
    /\ threads = EmptyFn /\ HANDLER_ID_COUNTER = 1
    /\ em_history = EmptyFn
SideIdle == ImportsIdle /\ TwIdle /\ JsRuntimeIdle /\ EventsIdle

\* a fresh loader at the entry of load_modules
FreshBundler ==
    /\ next = 1
    /\ modules = EmptyFn
    /\ load_order = <<>>
    /\ visiting = {}
    /\ stack = <<>>
    /\ err = NoErr
    /\ backEdges = {}
    /\ pc = "load"
    /\ bundle = NoBundle
    /\ cache = EmptyFn
    /\ jsStack = <<>>
    /\ site = [kind |-> "none", name |-> "", k |-> 0, id |-> ""]
    /\ globals = EmptyFn
    /\ nextObj = 1
    /\ initCount = EmptyFn
    /\ returned = EmptyFn
    /\ cyclic = {}
    /\ evalState = "none"
    /\ last = NoCall
    /\ bundled_runtime = None

Init ==
    /\ \E names \in SUBSET AliasNames :
          /\ aliases \in [names -> Paths \cup {NoPath}]
          /\ aliasOrder \in Perms(names)
          /\ InMeetingOrder([k \in DOMAIN aliasOrder |-> aliases[aliasOrder[k]]], 0)
    /\ FreshBundler
    /\ TextIdle
    /\ ConfigIdle
    /\ SideIdle

\* the steps of bundle_modules
BuildNext ==
    \/ ConfigMissing
    \/ ConfigFound
    \/ EntryFail
    \/ LoadSkip
    \/ LoadRead
    \/ LoadReadFail
    \/ LoadFinish
    \/ Propagate
    \/ Emit

\* the steps of the emitted bundle in the host's JS context
RuntimeNext ==
    \/ RequireCached
    \/ RequireInit
    \/ RequireMissing
    \/ InitReturn
    \/ EvalDone
    \/ HostLookup

Next == BuildNext \/ RuntimeNext

Spec == Init /\ [][Next]_vars

\* the transformer applied to one source, and the evaluation of what it wrote
NoAliases == aliases = EmptyFn /\ aliasOrder = <<>>
TransformInit ==
    /\ source_text \in Sources
    /\ code = <<>> /\ outcome = NoOutcome /\ tpc = "source"
    /\ NoAliases /\ FreshBundler /\ ConfigIdle /\ SideIdle
TransformNext == Transform \/ EvaluateEntry
TransformSpec == TransformInit /\ [][TransformNext]_vars

\* parse_config applied to one configuration text
ConfigInit ==
    /\ config \in Configs
    /\ table = EmptyFn /\ cpc = "text"
    /\ NoAliases /\ FreshBundler /\ TextIdle /\ SideIdle
ConfigNext == ParseConfig
ConfigSpec == ConfigInit /\ [][ConfigNext]_vars

(***************************************************************************)
(* tw_parser: a class string is the sequence of its classes and of the     *)
(* whitespace between them; ParsedStyles is a record of Options.           *)
(***************************************************************************)
MaxClasses == 3
Whitespace == {" ", "\n"}
TwClasses == {"flex", "block", "hidden", "flex-row", "flex-col", "justify-center",
              "justify-end", "items-center", "items-start", "gap-4", "bg-[#505050]",
              "flex-[2]", "flexbox"}
NoStyle == "None"
\* ParsedStyles::default()
DefaultStyles ==
    [display |-> NoStyle, flex_direction |-> NoStyle, justify_content |-> NoStyle,
     align_items |-> NoStyle, visibility |-> NoStyle, gap |-> NoStyle,
     background |-> NoStyle]

\* str::split_whitespace
split_whitespace(s) == SelectSeq(s, LAMBDA tok : tok \notin Whitespace)

\* parse_arbitrary: the prefix of a class that holds '[' and ends with ']'
parse_arbitrary(class) ==
    CASE class = "bg-[#505050]" -> "bg-"
      [] class = "flex-[2]" -> "flex-"
      [] OTHER -> NoStyle
\* apply_arbitrary
apply_arbitrary(prefix, st) ==
    IF prefix = "bg-" THEN [st EXCEPT !.background = "#505050"] ELSE st
\* parse_numbered_class: rsplitn(2, '-'), the number, the prefix
parse_numbered_class(class, st) ==
    IF class = "gap-4" THEN [st EXCEPT !.gap = "16px"] ELSE st

\* a parse_class that keeps a property that is already set
parse_class_keepFirst(class, st) ==
    IF parse_arbitrary(class) # NoStyle THEN apply_arbitrary(parse_arbitrary(class), st)
    ELSE CASE class = "flex" /\ st.display = NoStyle -> [st EXCEPT !.display = "Flex"]
           [] class = "block" /\ st.display = NoStyle -> [st EXCEPT !.display = "Block"]
           [] class = "flex-row" /\ st.flex_direction = NoStyle ->
                  [st EXCEPT !.flex_direction = "Row"]
           [] class = "flex-col" /\ st.flex_direction = NoStyle ->
                  [st EXCEPT !.flex_direction = "Column"]
           [] class = "justify-end" /\ st.justify_content = NoStyle ->
                  [st EXCEPT !.justify_content = "FlexEnd"]
           [] class = "justify-center" /\ st.justify_content = NoStyle ->
                  [st EXCEPT !.justify_content = "Center"]
           [] class = "items-start" /\ st.align_items = NoStyle ->
                  [st EXCEPT !.align_items = "FlexStart"]
           [] class = "items-center" /\ st.align_items = NoStyle ->
                  [st EXCEPT !.align_items = "Center"]
           [] OTHER -> st

\* parse_class: arbitrary values first, then the match on the class, then the numbered classes
parse_class(class, st) ==
    IF parse_arbitrary(class) # NoStyle THEN apply_arbitrary(parse_arbitrary(class), st)
    ELSE CASE class = "flex" -> [st EXCEPT !.display = "Flex"]
           [] class = "block" -> [st EXCEPT !.display = "Block"]
           [] class = "hidden" -> [st EXCEPT !.visibility = "Hidden"]
           [] class = "flex-row" -> [st EXCEPT !.flex_direction = "Row"]
           [] class = "flex-col" -> [st EXCEPT !.flex_direction = "Column"]
           [] class = "justify-end" -> [st EXCEPT !.justify_content = "FlexEnd"]
           [] class = "justify-center" -> [st EXCEPT !.justify_content = "Center"]
           [] class = "items-start" -> [st EXCEPT !.align_items = "FlexStart"]
           [] class = "items-center" -> [st EXCEPT !.align_items = "Center"]
           [] OTHER -> parse_numbered_class(class, st)

\* the whitespace of a class string: before the first class, between two classes, after
\* the last
Layouts ==
    {[lead |-> <<>>, sep |-> <<" ">>, trail |-> <<>>],
     [lead |-> <<" ">>, sep |-> <<"\n">>, trail |-> <<"\n">>],
     [lead |-> <<>>, sep |-> <<" ", " ">>, trail |-> <<" ">>]}
RECURSIVE JoinWith(_, _)
JoinWith(classes, sep) ==
    IF classes = <<>> THEN <<>>
    ELSE IF Len(classes) = 1 THEN classes
    ELSE <<Head(classes)>> \o sep \o JoinWith(Tail(classes), sep)
\* the class strings: at most MaxClasses classes, apart by whitespace
ClassStrings ==
    {l.lead \o JoinWith(classes, l.sep) \o l.trail :
        classes \in SeqUpTo(TwClasses, MaxClasses), l \in Layouts}

\* parse: one turn of the loop over split_whitespace
ParseClass ==
    /\ tw_pos < Len(split_whitespace(class_string))
    /\ styles' = parse_class(split_whitespace(class_string)[tw_pos + 1], styles)
    /\ tw_pos' = tw_pos + 1
    /\ UNCHANGED <<class_string, found, jsrtVars, emVars>>
    /\ UNCHANGED <<bundlerVars, textVars, configVars>>

TwInit ==
    /\ class_string \in ClassStrings
    /\ tw_pos = 0 /\ styles = DefaultStyles
    /\ NoAliases /\ FreshBundler /\ TextIdle /\ ConfigIdle
    /\ ImportsIdle /\ JsRuntimeIdle /\ EventsIdle
TwNext == ParseClass
TwSpec == TwInit /\ [][TwNext]_vars

(***************************************************************************)
(* The import regexes on text with its whitespace: a source is the         *)
(* sequence of its tokens and of the whitespace characters between them.   *)
(***************************************************************************)
\* \s
Ws == {" ", "\n"}
\* \w+
ImportWords == {"a", "x", "import", "export", "from", "as", "const", "require"}
AllWs(t, i, j) == \A k \in i..j : t[k] \in Ws
\* .*? matches no line break
NoNewline(t, i, j) == \A k \in i..j : t[k] # "\n"
\* \s* from the index i: the index of the first token at or after i that is no whitespace
SkipWs(t, i) ==
    IF \E j \in i..Len(t) : t[j] \notin Ws
    THEN CHOOSE j \in i..Len(t) : t[j] \notin Ws /\ AllWs(t, i, j - 1)
    ELSE Len(t) + 1
Tok(t, i) == IF i \in DOMAIN t THEN t[i] ELSE ""

\* the indices of S in increasing order
RECURSIVE Ascending(_)
Ascending(S) ==
    IF S = {} THEN <<>>
    ELSE LET m == CHOOSE i \in S : \A j \in S : i <= j
         IN <<m>> \o Ascending(S \ {m})

\* (import|export)\s+.*?\s+from\s+['"]([^'"]+)['"]: the string literal at r is captured
FromClauseAt(t, keyword, r) ==
    /\ t[r] \in StrLits
    /\ \E p, a, b, q \in DOMAIN t :
          /\ t[p] = keyword
          /\ p < a /\ AllWs(t, p + 1, a)
          /\ a < b /\ NoNewline(t, a + 1, b - 1)
          /\ b < q /\ AllWs(t, b, q - 1)
          /\ t[q] = "from"
          /\ q + 1 < r /\ AllWs(t, q + 1, r - 1)

\* import\s*\(\s*['"]([^'"]+)['"]\s*\): the string literal at r is captured
DynamicAt(t, r) ==
    /\ t[r] \in StrLits
    /\ \E p, o \in DOMAIN t :
          /\ t[p] = "import" /\ p < o /\ AllWs(t, p + 1, o - 1) /\ t[o] = "("
          /\ o < r /\ AllWs(t, o + 1, r - 1)
    /\ Tok(t, SkipWs(t, r + 1)) = ")"

\* parse_imports: the captures of re_import, then of re_export, then of re_dynamic
parse_imports(t) ==
    LET imp == Ascending({r \in DOMAIN t : FromClauseAt(t, "import", r)})
        exp == Ascending({r \in DOMAIN t : FromClauseAt(t, "export", r)})
        dyn == Ascending({r \in DOMAIN t : DynamicAt(t, r)})
    IN [k \in DOMAIN imp |-> t[imp[k]]] \o [k \in DOMAIN exp |-> t[exp[k]]] \o
       [k \in DOMAIN dyn |-> t[dyn[k]]]

\* transform_module, "Map specifiers to canonical paths", then
\* spec_to_path.get(spec).cloned().unwrap_or(spec.to_string())
PathOf(imports, spec) ==
    IF spec \in Range(imports) /\ TransformResolve(spec) # NoPath
    THEN TransformResolve(spec)
    ELSE spec

NoMatch == [end |-> 0, names |-> <<>>, spec |-> ""]
\* (import|export)\s*\{([^}]+)\}\s*from\s*['"]([^'"]+)['"] at the head of t
ListMatch(t, keyword) ==
    LET i == SkipWs(t, 2)
        j == IF \E k \in (i + 1)..Len(t) : t[k] = "}"
             THEN CHOOSE k \in (i + 1)..Len(t) : t[k] = "}" /\ \A n \in (i + 1)..(k - 1) : t[n] # "}"
             ELSE 0
        q == SkipWs(t, j + 1)
        r == SkipWs(t, q + 1)
    IN IF t[1] = keyword /\ Tok(t, i) = "{" /\ j >= i + 2 /\ Tok(t, q) = "from"
          /\ Tok(t, r) \in StrLits
       THEN [end |-> r, names |-> SubSeq(t, i + 1, j - 1), spec |-> t[r]]
       ELSE NoMatch

\* import\s+(\w+)\s+from\s*['"]([^'"]+)['"] at the head of t
DefaultMatch(t) ==
    LET i == SkipWs(t, 2)
        q == SkipWs(t, i + 1)
        r == SkipWs(t, q + 1)
    IN IF t[1] = "import" /\ i > 2 /\ Tok(t, i) \in ImportWords /\ q > i + 1
          /\ Tok(t, q) = "from" /\ Tok(t, r) \in StrLits
       THEN [end |-> r, names |-> <<t[i]>>, spec |-> t[r]]
       ELSE NoMatch

\* import\s*\*\s*as\s+(\w+)\s+from\s*['"]([^'"]+)['"] at the head of t
StarMatch(t) ==
    LET s == SkipWs(t, 2)
        a == SkipWs(t, s + 1)
        i == SkipWs(t, a + 1)
        q == SkipWs(t, i + 1)
        r == SkipWs(t, q + 1)
    IN IF t[1] = "import" /\ Tok(t, s) = "*" /\ Tok(t, a) = "as" /\ i > a + 1
          /\ Tok(t, i) \in ImportWords /\ q > i + 1 /\ Tok(t, q) = "from"
          /\ Tok(t, r) \in StrLits
       THEN [end |-> r, names |-> <<t[i]>>, spec |-> t[r]]
       ELSE NoMatch

\* export\s*\*\s*from\s*['"]([^'"]+)['"] at the head of t
StarExportMatch(t) ==
    LET s == SkipWs(t, 2)
        q == SkipWs(t, s + 1)
        r == SkipWs(t, q + 1)
    IN IF t[1] = "export" /\ Tok(t, s) = "*" /\ Tok(t, q) = "from" /\ Tok(t, r) \in StrLits
       THEN [end |-> r, names |-> <<>>, spec |-> t[r]]
       ELSE NoMatch

\* the format! of each replacement, with the path of the specifier
NamedText(m, path) ==
    <<"const", " ", "{">> \o m.names \o <<"}", " ", "=", " ", "require", "(", path, ")">>
DefaultText(m, path) ==
    <<"const", " ">> \o m.names \o
    <<" ", "=", " ", "(", "function", "(", ")", "{", " ", "var", " ", "m", " ", "=", " ",
      "require", "(", path, ")", ";", " ", "return", " ", "m", ".", "default", " ", "||",
      " ", "m", ";", " ", "}", ")", "(", ")">>
StarText(m, path) == <<"const", " ">> \o m.names \o <<" ", "=", " ", "require", "(", path, ")">>
ReexportText(m, path) ==
    <<"exports", ".">> \o SelectSeq(m.names, LAMBDA tok : tok \notin Ws) \o
    <<" ", "=", " ", "require", "(", path, ")", ".">> \o
    SelectSeq(m.names, LAMBDA tok : tok \notin Ws)
StarExportText(m, path) ==
    <<"Object.assign", "(", "exports", ",", " ", "require", "(", path, ")", ")">>

\* Regex::replace_all for one of the five regexes, left to right
RECURSIVE ReplaceAll(_, _, _)
ReplaceAll(t, pass, imports) ==
    IF t = <<>> THEN <<>>
    ELSE LET m == CASE pass = "named" -> ListMatch(t, "import")
                    [] pass = "default" -> DefaultMatch(t)
                    [] pass = "star" -> StarMatch(t)
                    [] pass = "reexport" -> ListMatch(t, "export")
                    [] pass = "star_export" -> StarExportMatch(t)
             path == PathOf(imports, m.spec)
             text == CASE pass = "named" -> NamedText(m, path)
                       [] pass = "default" -> DefaultText(m, path)
                       [] pass = "star" -> StarText(m, path)
                       [] pass = "reexport" -> ReexportText(m, path)
                       [] pass = "star_export" -> StarExportText(m, path)
         IN IF m.end > 0
            THEN text \o ReplaceAll(SubSeq(t, m.end + 1, Len(t)), pass, imports)
            ELSE <<Head(t)>> \o ReplaceAll(Tail(t), pass, imports)

\* transform_module: the import and re-export passes in the order of the code
TransformImports(t) ==
    LET imports == parse_imports(t)
    IN ReplaceAll(ReplaceAll(ReplaceAll(ReplaceAll(ReplaceAll(t,
           "named", imports), "default", imports), "star", imports),
           "reexport", imports), "star_export", imports)

\* the whitespace between two tokens of a statement, where JavaScript asks for none, and
\* between two words
Gap == {<<>>, <<" ">>, <<"\n">>}
WordGap == {<<" ">>, <<"\n">>}
ImportLits == {"./a", Ghost}
\* one import or re-export statement, in every layout
ImportSources ==
    {<<kw>> \o g1 \o <<"{">> \o g2 \o <<"a">> \o g3 \o <<"}">> \o g4 \o <<"from">> \o g5 \o <<lit>> :
        kw \in {"import", "export"}, g1 \in Gap, g2 \in Gap, g3 \in Gap, g4 \in Gap,
        g5 \in Gap, lit \in ImportLits}
    \cup {<<"import">> \o g1 \o <<"x">> \o g2 \o <<"from">> \o g3 \o <<lit>> :
        g1 \in WordGap, g2 \in WordGap, g3 \in Gap, lit \in ImportLits}
    \cup {<<"import">> \o g1 \o <<"*">> \o g2 \o <<"as">> \o g3 \o <<"x">> \o g4 \o <<"from">> \o g5 \o <<lit>> :
        g1 \in Gap, g2 \in Gap, g3 \in WordGap, g4 \in WordGap, g5 \in Gap, lit \in ImportLits}
    \cup {<<"export">> \o g1 \o <<"*">> \o g2 \o <<"from">> \o g3 \o <<lit>> :
        g1 \in Gap, g2 \in Gap, g3 \in Gap, lit \in ImportLits}
    \cup {<<"import">> \o g1 \o <<"(">> \o g2 \o <<lit>> \o g3 \o <<")">> :
        g1 \in Gap, g2 \in Gap, g3 \in Gap, lit \in ImportLits}

\* load_module_recursive, "Parse imports": the dependencies of the file are discovered
DiscoverImports ==
    /\ tpc = "source"
    /\ found' = parse_imports(source_text)
    /\ tpc' = "discovered"
    /\ UNCHANGED <<source_text, code, outcome>>
    /\ UNCHANGED <<bundlerVars, configVars, twVars, jsrtVars, emVars>>

\* bundle_modules, "Define modules in dependency order": the source of the file is rewritten
RewriteImports ==
    /\ tpc = "discovered"
    /\ code' = TransformImports(source_text)
    /\ tpc' = "rewritten"
    /\ UNCHANGED <<source_text, outcome, found>>
    /\ UNCHANGED <<bundlerVars, configVars, twVars, jsrtVars, emVars>>

ImportInit ==
    /\ source_text \in ImportSources
    /\ code = <<>> /\ outcome = NoOutcome /\ tpc = "source"
    /\ found = <<>>
    /\ NoAliases /\ FreshBundler /\ ConfigIdle
    /\ TwIdle /\ JsRuntimeIdle /\ EventsIdle
ImportNext == DiscoverImports \/ RewriteImports
ImportSpec == ImportInit /\ [][ImportNext]_vars

(***************************************************************************)
(* JsRuntime: execute_with_modules called several times on one runtime,    *)
(* from one thread or from several.                                        *)
(***************************************************************************)
MaxCalls == 3
Calls == 1..MaxCalls
\* Context::full: no script has been evaluated
FreshContext == [state |-> "fresh", holder |-> 0]
NotCalled == [at |-> "start", order |-> 0, path |-> "none", result |-> "none", after_init |-> FALSE]
\* an execute_with_modules_internal has returned Ok
InitCompleted == \E c \in Calls : calls[c].path = "init" /\ calls[c].result = "ok"

\* a lock that does not keep a second caller out
LockInitialized_shared(c) ==
    /\ calls[c].at = "start"
    /\ calls' = [calls EXCEPT ![c].at = "locked",
                              ![c].order = 1 + Cardinality({d \in Calls : calls[d].order > 0})]
    /\ UNCHANGED <<initialized, init_guard, context>>
    /\ UNCHANGED <<bundlerVars, textVars, configVars, found, twVars, emVars>>

\* execute_with_modules: self.initialized.write().unwrap()
LockInitialized(c) ==
    /\ calls[c].at = "start"
    /\ init_guard = 0
    /\ init_guard' = c
    /\ calls' = [calls EXCEPT ![c].at = "locked",
                              ![c].order = 1 + Cardinality({d \in Calls : calls[d].order > 0})]
    /\ UNCHANGED <<initialized, context>>
    /\ UNCHANGED <<bundlerVars, textVars, configVars, found, twVars, emVars>>

\* execute_with_modules: if *initialized
ReadInitialized(c) ==
    /\ calls[c].at = "locked"
    /\ calls' = [calls EXCEPT ![c].at = IF initialized THEN "seen_true" ELSE "seen_false",
                              ![c].after_init = initialized /\ InitCompleted]
    /\ UNCHANGED <<initialized, init_guard, context>>
    /\ UNCHANGED <<bundlerVars, textVars, configVars, found, twVars, emVars>>

\* execute_with_modules, "Already initialized, just re-render": drop(initialized)
TakeRerenderPath(c) ==
    /\ calls[c].at = "seen_true"
    /\ init_guard' = IF init_guard = c THEN 0 ELSE init_guard
    /\ calls' = [calls EXCEPT ![c].at = "rerender", ![c].path = "rerender"]
    /\ UNCHANGED <<initialized, context>>
    /\ UNCHANGED <<bundlerVars, textVars, configVars, found, twVars, emVars>>

\* execute_with_modules: *initialized = true; drop(initialized)
SetInitialized(c) ==
    /\ calls[c].at = "seen_false"
    /\ initialized' = TRUE
    /\ init_guard' = IF init_guard = c THEN 0 ELSE init_guard
    /\ calls' = [calls EXCEPT ![c].at = "internal", ![c].path = "init"]
    /\ UNCHANGED context
    /\ UNCHANGED <<bundlerVars, textVars, configVars, found, twVars, emVars>>

\* execute_with_modules_internal: context.with, the base shim is evaluated
EvalBaseShim(c) ==
    /\ calls[c].at = "internal"
    /\ context.holder = 0
    /\ context' = [state |-> "shim", holder |-> c]
    /\ calls' = [calls EXCEPT ![c].at = "bundle"]
    /\ UNCHANGED <<initialized, init_guard>>
    /\ UNCHANGED <<bundlerVars, textVars, configVars, found, twVars, emVars>>

\* execute_with_modules_internal: the bundled runtime, or the built-in module, is
\* evaluated; an exception of the bundle makes the call bail
EvalBundle(c, ok) ==
    /\ calls[c].at = "bundle"
    /\ IF ok
       THEN /\ context' = [context EXCEPT !.state = "gpui"]
            /\ calls' = [calls EXCEPT ![c].at = "script"]
       ELSE /\ context' = [context EXCEPT !.holder = 0]
            /\ calls' = [calls EXCEPT ![c].at = "returned", ![c].result = "err"]
    /\ UNCHANGED <<initialized, init_guard>>
    /\ UNCHANGED <<bundlerVars, textVars, configVars, found, twVars, emVars>>

\* execute_with_modules_internal, "Transform and execute": the user script is evaluated
\* and the root element is converted
EvalUserScript(c, ok) ==
    /\ calls[c].at = "script"
    /\ context' = [state |-> IF ok THEN "ready" ELSE context.state, holder |-> 0]
    /\ calls' = [calls EXCEPT ![c].at = "returned", ![c].result = IF ok THEN "ok" ELSE "err"]
    /\ UNCHANGED <<initialized, init_guard>>
    /\ UNCHANGED <<bundlerVars, textVars, configVars, found, twVars, emVars>>

\* re_render: context.with, __rerender() is evaluated; it is defined and has a mount
\* function only after the user script has run
ReRender(c) ==
    /\ calls[c].at = "rerender"
    /\ context.holder = 0
    /\ calls' = [calls EXCEPT ![c].at = "returned",
                              ![c].result = IF context.state = "ready" THEN "ok" ELSE "err"]
    /\ UNCHANGED <<initialized, init_guard, context>>
    /\ UNCHANGED <<bundlerVars, textVars, configVars, found, twVars, emVars>>

JsRuntimeInit ==
    /\ initialized = FALSE /\ init_guard = 0 /\ context = FreshContext
    /\ calls = [c \in Calls |-> NotCalled]
    /\ NoAliases /\ FreshBundler /\ TextIdle /\ ConfigIdle
    /\ ImportsIdle /\ TwIdle /\ EventsIdle
JsRuntimeNext ==
    \E c \in Calls :
        \/ LockInitialized(c)
        \/ ReadInitialized(c)
        \/ TakeRerenderPath(c)
        \/ SetInitialized(c)
        \/ EvalBaseShim(c)
        \/ \E ok \in BOOLEAN : EvalBundle(c, ok)
        \/ \E ok \in BOOLEAN : EvalUserScript(c, ok)
        \/ ReRender(c)
JsRuntimeSpec == JsRuntimeInit /\ [][JsRuntimeNext]_vars

(***************************************************************************)
(* EventManager: clones of one manager used by two threads, and the global *)
(* counter of handler ids.                                                 *)
(***************************************************************************)
MaxIds == 3
MaxRequests == 2
Threads == {"main", "worker"}
NoThread == "none"
\* the ids a caller may name: those next_handler_id hands out, and 0, which it never does
HandlerIds == 0..MaxIds
\* a thread between two operations; ids are the values next_handler_id gave it
Idle(t) ==
    [at |-> "idle", id |-> 0, func |-> FALSE, ok |-> FALSE, needs |-> FALSE,
     ids |-> threads[t].ids]
NoHistory == [started |-> 0, pending |-> 0, last |-> <<"none", FALSE>>]

\* a write lock that is granted whoever holds the lock
CanWrite_always(t) == TRUE

\* RwLock::write: granted when nobody holds the lock
CanWrite(t) == lock.writer = NoThread /\ lock.readers = {}
\* RwLock::read: granted when nobody holds the write lock
CanRead(t) == lock.writer = NoThread

\* a counter that is read without being advanced
fetch_add_stale(counter) == [value |-> counter, counter |-> counter]

\* AtomicU64::fetch_add(1, SeqCst): the old value is returned, the counter is advanced
fetch_add(counter) == [value |-> counter, counter |-> counter + 1]

\* js_to_element: let handler_id = next_handler_id()
NextHandlerId(t) ==
    /\ threads[t].at = "idle"
    /\ Len(threads["main"].ids) + Len(threads["worker"].ids) < MaxIds
    /\ HANDLER_ID_COUNTER' = fetch_add(HANDLER_ID_COUNTER).counter
    /\ threads' = [threads EXCEPT ![t].at = "register",
                                  ![t].ids = Append(@, fetch_add(HANDLER_ID_COUNTER).value)]
    /\ UNCHANGED <<handlers, needs_render, lock, em_history>>
    /\ UNCHANGED <<bundlerVars, textVars, configVars, found, twVars, jsrtVars>>

\* register_handler: the function of the thread's newest id is inserted under the id
RegisterHandler(t) ==
    /\ threads[t].at = "register"
    /\ CanWrite(t)
    /\ handlers' = (threads[t].ids[Len(threads[t].ids)] :> <<t, Len(threads[t].ids)>>) @@ handlers
    /\ threads' = [threads EXCEPT ![t].at = "idle"]
    /\ UNCHANGED <<needs_render, lock, HANDLER_ID_COUNTER, em_history>>
    /\ UNCHANGED <<bundlerVars, textVars, configVars, found, twVars, jsrtVars>>

\* remove_handler
RemoveHandler(t, id) ==
    /\ threads[t].at = "idle"
    /\ id \in DOMAIN handlers
    /\ CanWrite(t)
    /\ handlers' = [k \in DOMAIN handlers \ {id} |-> handlers[k]]
    /\ UNCHANGED <<threads, needs_render, lock, HANDLER_ID_COUNTER, em_history>>
    /\ UNCHANGED <<bundlerVars, textVars, configVars, found, twVars, jsrtVars>>

\* request_render, called by a thread of its own
RequestRender(t) ==
    /\ threads[t].at = "idle"
    /\ em_history.started < MaxRequests
    /\ CanWrite(t)
    /\ needs_render' = TRUE
    /\ em_history' = [em_history EXCEPT !.started = @ + 1, !.pending = @ + 1]
    /\ UNCHANGED <<threads, handlers, lock, HANDLER_ID_COUNTER>>
    /\ UNCHANGED <<bundlerVars, textVars, configVars, found, twVars, jsrtVars>>

\* take_render_request: let mut inner = self.inner.write().unwrap()
TakeLock(t) ==
    /\ threads[t].at = "idle"
    /\ CanWrite(t)
    /\ lock' = [lock EXCEPT !.writer = t]
    /\ threads' = [threads EXCEPT ![t].at = "take_locked"]
    /\ UNCHANGED <<handlers, needs_render, HANDLER_ID_COUNTER, em_history>>
    /\ UNCHANGED <<bundlerVars, textVars, configVars, found, twVars, jsrtVars>>

\* take_render_request: let needs = inner.needs_render
TakeRead(t) ==
    /\ threads[t].at = "take_locked"
    /\ threads' = [threads EXCEPT ![t].at = "take_read", ![t].needs = needs_render]
    /\ UNCHANGED <<handlers, needs_render, lock, HANDLER_ID_COUNTER, em_history>>
    /\ UNCHANGED <<bundlerVars, textVars, configVars, found, twVars, jsrtVars>>

\* take_render_request: inner.needs_render = false; needs
TakeClear(t) ==
    /\ threads[t].at = "take_read"
    /\ needs_render' = FALSE
    /\ lock' = [lock EXCEPT !.writer = IF @ = t THEN NoThread ELSE @]
    /\ em_history' = [em_history EXCEPT !.pending = 0, !.last = <<"take", threads[t].needs>>]
    /\ threads' = [threads EXCEPT ![t] = Idle(t)]
    /\ UNCHANGED <<handlers, HANDLER_ID_COUNTER>>
    /\ UNCHANGED <<bundlerVars, textVars, configVars, found, twVars, jsrtVars>>

\* a lookup whose read guard lives to the end of invoke_handler
InvokeLookup_holdGuard(t, id) ==
    /\ threads[t].at = "idle"
    /\ em_history.started < MaxRequests
    /\ CanRead(t)
    /\ lock' = [lock EXCEPT !.readers = @ \cup {t}]
    /\ threads' = [threads EXCEPT ![t].at = "invoke_looked", ![t].id = id,
                                  ![t].func = id \in DOMAIN handlers]
    /\ em_history' = [em_history EXCEPT !.started = @ + 1]
    /\ UNCHANGED <<handlers, needs_render, HANDLER_ID_COUNTER>>
    /\ UNCHANGED <<bundlerVars, textVars, configVars, found, twVars, jsrtVars>>

\* invoke_handler: the function is looked up and cloned under a read guard that ends with
\* the block
InvokeLookup(t, id) ==
    /\ threads[t].at = "idle"
    /\ em_history.started < MaxRequests
    /\ CanRead(t)
    /\ threads' = [threads EXCEPT ![t].at = "invoke_looked", ![t].id = id,
                                  ![t].func = id \in DOMAIN handlers]
    /\ em_history' = [em_history EXCEPT !.started = @ + 1]
    /\ UNCHANGED <<handlers, needs_render, lock, HANDLER_ID_COUNTER>>
    /\ UNCHANGED <<bundlerVars, textVars, configVars, found, twVars, jsrtVars>>

\* invoke_handler, "Handler {} not found": return false
InvokeNotFound(t) ==
    /\ threads[t].at = "invoke_looked"
    /\ ~threads[t].func
    /\ threads' = [threads EXCEPT ![t] = Idle(t)]
    /\ em_history' = [em_history EXCEPT !.last = <<"invoke", FALSE>>]
    /\ UNCHANGED <<handlers, needs_render, lock, HANDLER_ID_COUNTER>>
    /\ UNCHANGED <<bundlerVars, textVars, configVars, found, twVars, jsrtVars>>

\* a call whose failure is taken for a success
InvokeCall_ignoreError(t, ok) ==
    /\ threads[t].at = "invoke_looked"
    /\ threads[t].func
    /\ threads' = [threads EXCEPT ![t].ok = ok, ![t].at = "invoke_request"]
    /\ UNCHANGED <<handlers, needs_render, lock, HANDLER_ID_COUNTER, em_history>>
    /\ UNCHANGED <<bundlerVars, textVars, configVars, found, twVars, jsrtVars>>

\* invoke_handler: the function is restored and called; a failure of either returns false
InvokeCall(t, ok) ==
    /\ threads[t].at = "invoke_looked"
    /\ threads[t].func
    /\ IF ok
       THEN /\ threads' = [threads EXCEPT ![t].ok = TRUE, ![t].at = "invoke_request"]
            /\ UNCHANGED em_history
       ELSE /\ threads' = [threads EXCEPT ![t] = Idle(t)]
            /\ em_history' = [em_history EXCEPT !.last = <<"invoke", FALSE>>]
    /\ UNCHANGED <<handlers, needs_render, lock, HANDLER_ID_COUNTER>>
    /\ UNCHANGED <<bundlerVars, textVars, configVars, found, twVars, jsrtVars>>

\* invoke_handler, "Handler executed successfully, request render": return true
InvokeRequestRender(t) ==
    /\ threads[t].at = "invoke_request"
    /\ CanWrite(t)
    /\ needs_render' = TRUE
    /\ em_history' = [em_history EXCEPT !.pending = @ + 1, !.last = <<"invoke", TRUE>>]
    /\ threads' = [threads EXCEPT ![t] = Idle(t)]
    /\ UNCHANGED <<handlers, lock, HANDLER_ID_COUNTER>>
    /\ UNCHANGED <<bundlerVars, textVars, configVars, found, twVars, jsrtVars>>

EventInit ==
    /\ handlers = EmptyFn /\ needs_render = FALSE
    /\ lock = [writer |-> NoThread, readers |-> {}]
    /\ threads = [t \in Threads |->
           [at |-> "idle", id |-> 0, func |-> FALSE, ok |-> FALSE, needs |-> FALSE,
            ids |-> <<>>]]
    /\ HANDLER_ID_COUNTER = 1
    /\ em_history = NoHistory
    /\ NoAliases /\ FreshBundler /\ TextIdle /\ ConfigIdle
    /\ ImportsIdle /\ TwIdle /\ JsRuntimeIdle
EventNext ==
    \E t \in Threads :
        \/ NextHandlerId(t)
        \/ RegisterHandler(t)
        \/ \E id \in HandlerIds : RemoveHandler(t, id)
        \/ RequestRender(t)
        \/ TakeLock(t)
        \/ TakeRead(t)
        \/ TakeClear(t)
        \/ \E id \in HandlerIds : InvokeLookup(t, id)
        \/ InvokeNotFound(t)
        \/ \E ok \in BOOLEAN : InvokeCall(t, ok)
        \/ InvokeRequestRender(t)
EventSpec == EventInit /\ [][EventNext]_vars

(***************************************************************************)
(* Properties of the graph builder.                                        *)
(***************************************************************************)
\* bundle_modules left the entry loop with Ok
BuildOk == pc \in {"eval", "host"}
\* bundle_modules returned, with a bundle or with an error
BuildOver == pc \in {"eval", "host", "failed"}

\* the indices of a path in load_order
Positions(path) == {k \in DOMAIN load_order : load_order[k] = path}
Pos(path) == CHOOSE k \in Positions(path) : TRUE
DepsOf(path) == Range(modules[path].dependencies)

Precedes(d, m) == Positions(d) # {} /\ Positions(m) # {} /\ Pos(d) < Pos(m)

\* C1 as stated: after a successful build every recorded dependency D of every module M
\* stands at a strictly smaller index of load_order than M, import cycles included.
C1_AllDepsFirst ==
    BuildOk => \A m \in DOMAIN modules : \A d \in DepsOf(m) : Precedes(d, m)

\* C1 as amended: after a successful build a recorded dependency D of a module M stands
\* before M in load_order unless the call for D was skipped by the circular check while M
\* was being loaded (the edge M -> D closes an import cycle); such a D is M itself or
\* stands after M.
C1_DepsFirstButBackEdges ==
    BuildOk =>
        \A m \in DOMAIN modules : \A d \in DepsOf(m) :
            IF <<m, d>> \in backEdges
            THEN d = m \/ Precedes(m, d)
            ELSE Precedes(d, m)

\* a successful build of a tree with a cycle of two files and an edge outside the cycle
C1_Witness ==
    /\ BuildOk
    /\ \E m, d \in DOMAIN modules : m # d /\ <<m, d>> \in backEdges
    /\ \E m, d \in DOMAIN modules : m # d /\ d \in DepsOf(m) /\ <<m, d>> \notin backEdges

\* C2: at every point of the build load_order holds no path twice, and the paths of
\* load_order are the keys of the module map.
C2_LoadOrderIsTheMap ==
    /\ \A p \in Paths : Cardinality(Positions(p)) <= 1
    /\ Range(load_order) = DOMAIN modules

\* a successful build in which two modules import the same third module
C2_Witness ==
    /\ BuildOk
    /\ \E m1, m2, d \in DOMAIN modules :
          /\ m1 # m2 /\ d # m1 /\ d # m2
          /\ d \in DepsOf(m1) /\ d \in DepsOf(m2)

\* no path has two active calls of load_module_recursive
NoReentry == \A i, j \in DOMAIN stack : stack[i].path = stack[j].path => i = j

\* the modules met on a cycle are each once in load_order
CycleLoadedOnce ==
    BuildOk => \A e \in backEdges :
                  Cardinality(Positions(e[1])) = 1 /\ Cardinality(Positions(e[2])) = 1

\* bundle_modules has not returned
Building == pc \in {"build", "unwind"}

\* the work of the active calls: the dependencies still to call and the final insertion
RECURSIVE StackWork(_)
StackWork(k) ==
    IF k = 0 THEN 0
    ELSE (Len(stack[k].dependencies) - stack[k].i + 2) + StackWork(k - 1)

\* a bound on the steps bundle_modules still takes. Loading: the files not met yet, each
\* with its imports, the work of the active calls, the entries left, the return itself.
\* Returning an error: the active calls the error still has to leave.
Rank ==
    IF pc = "build"
    THEN (NumPaths - Cardinality(DOMAIN modules \cup {stack[k].path : k \in DOMAIN stack}))
             * (MaxImports + 2)
         + StackWork(Len(stack))
         + (Len(aliasOrder) + 1 - next)
         + 2
    ELSE IF pc = "unwind" THEN Len(stack) + 1
    ELSE 0

\* C3: on every file tree, self imports and import cycles included, the traversal ends
\* (every step of the build lowers a natural number and the build is never stuck before
\* it returns); no path on the DFS stack is entered again, the circular check raises no
\* error (an error comes from a failed read or a failed canonicalize only, and the path of
\* a read error was not on the DFS stack before), and after a successful build every module
\* of a cycle is once in load_order.
C3_CyclesTerminate ==
    /\ [](NoReentry /\ CycleLoadedOnce)
    /\ [](Rank >= 0 /\ (Building => ENABLED BuildNext))
    /\ [](pc = "failed" => err.kind \in {"entry", "read"})
    /\ [](err.kind = "read" => \A i \in DOMAIN stack : stack[i].path # err.who)
    /\ [][Building => Rank' < Rank]_vars

\* a successful build of a tree with a self import and one with a cycle through every file
C3_Witness ==
    /\ BuildOk
    /\ \/ \E m \in DOMAIN modules : <<m, m>> \in backEdges
       \/ /\ Len(load_order) = NumPaths
          /\ \E e \in backEdges : Pos(e[1]) = 1 /\ Pos(e[2]) = NumPaths

\* the import edges of a loaded module, from its source
EdgesOf(path) == {resolve_import(modules[path].source[k]) : k \in DOMAIN modules[path].source} \ {NoPath}

\* the paths reachable from a set of paths through the import edges of the loaded modules
RECURSIVE ReachFrom(_)
ReachFrom(S) ==
    LET more == S \cup UNION {EdgesOf(p) : p \in S \cap DOMAIN modules}
    IN IF more = S THEN S ELSE ReachFrom(more)

AliasTargets == {aliases[n] : n \in DOMAIN aliases} \ {NoPath}

\* C4: after a successful build the keys of the module map are the files reachable from
\* the alias targets through resolved import edges, the edges that close a cycle included.
C4_MapIsReachableSet ==
    BuildOk => DOMAIN modules = ReachFrom(AliasTargets)

\* a successful build that loaded a file two imports away from an alias target, and a cycle
C4_Witness ==
    /\ BuildOk
    /\ backEdges # {}
    /\ \E p \in DOMAIN modules :
          /\ p \notin AliasTargets
          /\ \A t \in AliasTargets : p \notin EdgesOf(t)

\* the ids of the emitted registry entries, in the order of emission
RegistryOrder == [k \in DOMAIN bundle.registry |-> bundle.registry[k].id]

\* C5: the emitted registry has one entry per path of load_order, in load order, and no
\* other; a path two specifiers or two alias names resolve to has one Module and one entry.
C5_OneEntryPerPath ==
    BuildOk =>
        /\ RegistryOrder = load_order
        /\ \A p \in DOMAIN modules :
              Cardinality({k \in DOMAIN bundle.registry : bundle.registry[k].id = p}) = 1
        /\ RegistryIds = DOMAIN modules

\* a bundle of a tree where two alias names, and an alias name and a relative specifier,
\* resolve to the same file
C5_Witness ==
    /\ BuildOk
    /\ \E n1, n2 \in AliasList : n1 # n2 /\ aliases[n1] = aliases[n2]
    /\ \E m \in DOMAIN modules : \E s1, s2 \in Range(modules[m].source) :
          s1 # s2 /\ resolve_import(s1) = resolve_import(s2) /\ resolve_import(s1) # NoPath

(***************************************************************************)
(* Properties of the emitted runtime.                                      *)
(***************************************************************************)
\* C6: the initializer of an id is started at most once, also when an initializer threw,
\* and every require(id) that returns hands back the same exports object.
C6_InitOnceSameExports ==
    \A id \in DOMAIN cache :
        /\ Count(id) <= 1
        /\ Cardinality(ReturnedOf(id)) <= 1
        /\ ReturnedOf(id) \subseteq {cache[id].exports}

\* a module required itself while its initializer ran, and the initializer then threw
C6_Witness ==
    /\ evalState = "threw"
    /\ \E id \in cyclic : Count(id) = 1 /\ ReturnedOf(id) = {cache[id].exports}

\* C7: a require of a module whose initializer is running starts no second initializer
\* and does not recurse: it returns the cached exports object, the one the outer require
\* returns later.
C7_CircularRequire ==
    /\ \A i, j \in DOMAIN jsStack : jsStack[i].id = jsStack[j].id => i = j
    /\ \A id \in cyclic : Count(id) = 1 /\ ReturnedOf(id) = {cache[id].exports}

\* A requires B, B requires A while A runs, and the bundle ran to its end
C7_Witness ==
    /\ evalState = "ok"
    /\ \E a, b \in cyclic : a # b

\* C8 as stated: after the bundle ran, __requireAlias throws 'Unknown module' for every
\* name that is no configured alias, and returns the exports of the module of a
\* configured alias, which has a registry entry.
C8_UnknownNameThrows ==
    evalState = "ok" =>
        /\ \A n \in DOMAIN aliases : aliases[n] \in RegistryIds
        /\ last.outcome # "none" =>
              IF last.name \in DOMAIN aliases
              THEN last.outcome = "returned" /\ last.value = cache[aliases[last.name]].exports
              ELSE last.outcome = "UnknownModule"

\* C9: after the bundle ran, globalThis.__modules holds under every configured alias name
\* the exports object the alias lookup returns for it, the same object for two aliases of
\* one file.
C9_AliasesPublished ==
    evalState = "ok" =>
        /\ DOMAIN aliases \subseteq DOMAIN globals
        /\ \A n \in DOMAIN aliases : globals[n] = cache[aliases[n]].exports
        /\ \A n1, n2 \in DOMAIN aliases : aliases[n1] = aliases[n2] => globals[n1] = globals[n2]
        /\ (last.outcome = "returned" /\ last.name \in DOMAIN aliases)
              => last.value = globals[last.name]

\* two aliases of one file and one of another are published, and the host looked one up
C9_Witness ==
    /\ evalState = "ok"
    /\ last.outcome = "returned"
    /\ \E n1, n2 \in DOMAIN aliases : n1 # n2 /\ globals[n1] = globals[n2]

(***************************************************************************)
(* Properties of the errors of the build.                                  *)
(***************************************************************************)
MissingAliases == {n \in DOMAIN aliases : aliases[n] = NoPath}
FirstMissing == CHOOSE k \in DOMAIN aliasOrder :
                    /\ aliasOrder[k] \in MissingAliases
                    /\ \A j \in DOMAIN aliasOrder : aliasOrder[j] \in MissingAliases => k <= j

\* C10 as stated: when the target of an alias cannot be canonicalized, bundle_modules
\* fails with an error that names an alias that cannot be canonicalized, wherever the
\* alias stands in the table and whatever was loaded before.
C10_ErrorNamesAlias ==
    (BuildOver /\ MissingAliases # {}) =>
        /\ pc = "failed"
        /\ err.kind = "entry" /\ err.who \in MissingAliases

\* C10 as amended: when the target of an alias cannot be canonicalized, bundle_modules
\* fails; the error names the first such alias in the iteration order of the table,
\* unless a module of an earlier alias could not be read, and then it names that path.
C10_FailsAtFirstFault ==
    (BuildOver /\ MissingAliases # {}) =>
        /\ pc = "failed"
        /\ \/ err = [kind |-> "entry", who |-> aliasOrder[FirstMissing]] /\ next = FirstMissing
           \/ err.kind = "read" /\ err.who \in Paths /\ next < FirstMissing

\* the run failed at the second alias, after the modules of the first were loaded
C10_Witness ==
    /\ pc = "failed"
    /\ err.kind = "entry"
    /\ next = 2
    /\ Len(load_order) >= 2

(***************************************************************************)
(* Properties of the failing build.                                        *)
(***************************************************************************)
\* the paths of the active calls of load_module_recursive
OnStack == {stack[k].path : k \in DOMAIN stack}

\* the step on which a read fails: the error names the file being read, and visiting is
\* that file and the files of the active calls
ReadFailStep ==
    (pc = "build" /\ pc' = "unwind") =>
        (err' = [kind |-> "read", who |-> Callee] /\ visiting' = OnStack \cup {Callee})
\* every step after the failure keeps the error and what was loaded
ErrorKept ==
    (pc \in {"unwind", "failed"}) =>
        (err' = err /\ modules' = modules /\ load_order' = load_order /\ visiting' = visiting)

\* C11: when the read of a module file fails, at any depth, the error names that file, it
\* reaches the caller of bundle_modules unchanged, and neither the failing file nor a file
\* whose call was active at the failure (all of them are in visiting) is in the module map
\* or in the load order, then or later.
C11_ReadErrorUnwinds ==
    /\ [](err.kind = "read" =>
            /\ pc \in {"unwind", "failed"}
            /\ err.who \in visiting
            /\ OnStack \subseteq visiting
            /\ visiting \cap DOMAIN modules = {}
            /\ visiting \cap Range(load_order) = {})
    /\ [][ReadFailStep]_vars
    /\ [][ErrorKept]_vars

\* a file two calls deep failed to read after a sibling had been loaded, and the error
\* has left bundle_modules
C11_Witness ==
    /\ pc = "failed" /\ err.kind = "read"
    /\ Cardinality(visiting) >= 2
    /\ load_order # <<>>

\* C12: a build that ends in an error leaves bundled_runtime as it was on the fresh loader,
\* None, and a build that ends well stores the whole emitted bundle.
C12_NoPartialBundle ==
    /\ pc \in {"build", "unwind", "failed"} => bundled_runtime = None
    /\ BuildOk => bundled_runtime = Some(bundle) /\ RegistryOrder = load_order

\* the build failed after modules had been loaded
C12_Witness ==
    /\ pc = "failed" /\ err # NoErr
    /\ DOMAIN modules # {}
    /\ bundled_runtime = None

(***************************************************************************)
(* Properties of unresolved specifiers.                                    *)
(***************************************************************************)
\* the positions of the imports of a source the builder found no path for
Unresolved(source) == {k \in DOMAIN source : resolve_import(source[k]) = NoPath}

\* C13: a specifier the builder resolves to no path is never the cause of an error, adds
\* nothing to the dependency list of its importer, to the module map or to the load order,
\* and in the emitted registry the require call at its place carries the specifier's text.
C13_UnresolvedKeptRaw ==
    /\ err.kind = "read" => err.who \in Paths
    /\ err.kind = "entry" => err.who \in DOMAIN aliases /\ aliases[err.who] = NoPath
    /\ DOMAIN modules \subseteq Paths
    /\ Range(load_order) \subseteq Paths
    /\ \A p \in DOMAIN modules :
          /\ Range(modules[p].dependencies) \subseteq Paths
          /\ Len(modules[p].dependencies) =
                 Len(modules[p].source) - Cardinality(Unresolved(modules[p].source))
    /\ BuildOk =>
          \A e \in DOMAIN bundle.registry :
             LET source == modules[bundle.registry[e].id].source
             IN  /\ Len(bundle.registry[e].body) = Len(source)
                 /\ \A k \in Unresolved(source) : bundle.registry[e].body[k] = source[k]

\* a bundle was built of a module that imports a file and a specifier without a file
C13_Witness ==
    /\ BuildOk
    /\ \E p \in DOMAIN modules :
          /\ Unresolved(modules[p].source) # {}
          /\ modules[p].dependencies # <<>>

\* C14: no call of __require with an id that has no registry entry returns an exports
\* object, the first one or a later one.
C14_MissingIdAlwaysThrows ==
    (pc \in {"eval", "host"}) =>
        \A id \in DOMAIN returned : ReturnedOf(id) # {} => id \in RegistryIds

\* C15: in every registry entry, the require call that stands for an import the builder
\* resolved (an alias name included) carries the builder's path, and that path has a
\* registry entry.
C15_TransformerAgrees ==
    BuildOk =>
        \A e \in DOMAIN bundle.registry :
           LET source == modules[bundle.registry[e].id].source
           IN  \A k \in DOMAIN source \ Unresolved(source) :
                  /\ bundle.registry[e].body[k] = resolve_import(source[k])
                  /\ bundle.registry[e].body[k] \in RegistryIds

(***************************************************************************)
(* Properties of the source transformer.                                   *)
(***************************************************************************)
\* C16: the module text `export const value = 42;`, rewritten and evaluated as the registry
\* entry of alias "pkg", evaluates without error and its exports hold value = 42.
C16_ExportConstEndToEnd ==
    (tpc = "evaluated" /\ source_text = DeclSource("const", "value", TRUE)) =>
        /\ outcome.status = "ok"
        /\ "value" \in DOMAIN outcome.exports
        /\ outcome.exports["value"] = Num("42")

\* part occurs in t as consecutive tokens
Contains(t, part) ==
    \E k \in 0..(Len(t) - Len(part)) : SubSeq(t, k + 1, k + Len(part)) = part
\* the value the declared binding has after the declaration ran
DeclValue(keyword, name) ==
    IF keyword = "function" THEN Fn(name)
    ELSE IF keyword = "class" THEN Class(name)
    ELSE Num("42")

\* C17: for each of the five keywords, the rewritten text holds the declaration as it was
\* written after `export` (keyword, name, initializer or body) and the assignment
\* exports.NAME = NAME, and after the evaluation exports.NAME is the binding's value.
C17_DeclarationKeptIntact ==
    \A kw \in DeclKeywords, n \in Names :
        (tpc = "evaluated" /\ source_text = DeclSource(kw, n, TRUE)) =>
            /\ Contains(code, Tail(source_text))
            /\ Contains(code, <<"exports", ".", n, "=", n>>)
            /\ outcome.status = "ok"
            /\ n \in DOMAIN outcome.exports
            /\ outcome.exports[n] = DeclValue(kw, n)

\* C18: an export list without from-clause is rewritten to one assignment
\* exports.<exported> = <local> per binding, whatever the names of the bindings are.
C18_ExportListRewritten ==
    \A bs \in BindingLists :
        (tpc \in {"transformed", "evaluated"} /\ source_text = ListSource(bs, "")) =>
            code = Prelude
                     \o JoinSemi([k \in DOMAIN bs |->
                                    <<"exports", ".", bs[k].exported, "=", bs[k].local>>])
                     \o <<";">>

(***************************************************************************)
(* Properties of parse_config.                                             *)
(***************************************************************************)
\* C19: the table parse_config returns for a text with comments is the table of the pairs
\* standing outside the comments, in their order: no such pair is lost and no pair inside
\* a comment is captured.
C19_CommentsIgnored ==
    cpc = "parsed" => table = InsertPairs(WithoutComments(config), EmptyFn)

(***************************************************************************)
(* Properties of the order of the entries.                                 *)
(***************************************************************************)
\* the load order a run of the entry loop gives that walks the file tree recorded in
\* modules: load_module_recursive, then its loop over the dependencies
RECURSIVE VisitFile(_, _, _)
RECURSIVE VisitDeps(_, _, _)
VisitFile(path, order, active) ==
    IF path \in Range(order) \/ path \in active THEN order
    ELSE Append(VisitDeps(modules[path].dependencies, order, active \cup {path}), path)
VisitDeps(deps, order, active) ==
    IF deps = <<>> THEN order
    ELSE VisitDeps(Tail(deps), VisitFile(Head(deps), order, active), active)
\* the entry loop of bundle_modules, iterating the aliases in the order names
RECURSIVE OrderFor(_, _)
OrderFor(names, order) ==
    IF names = <<>> THEN order
    ELSE OrderFor(Tail(names), VisitFile(aliases[Head(names)], order, {}))

\* C20: whatever order the alias table is iterated in, the run over the same alias table
\* and the same file tree gives the load order and the eager registrations (a part of the
\* bundle text) that this run gave.
C20_OrderIndependent ==
    BuildOk =>
        \A names \in Perms(DOMAIN aliases) :
            /\ OrderFor(names, <<>>) = load_order
            /\ EmitEager(names) = bundle.eager

(***************************************************************************)
(* Properties of load_modules without a configuration.                     *)
(***************************************************************************)
\* C21: when there is no configuration file, load_modules returns without an error, having
\* read no module and stored no bundle; and a configuration without pairs, the empty alias
\* table, never leads to an error.
C21_NoConfigIsNoOp ==
    /\ pc = "noop" =>
          /\ err = NoErr
          /\ modules = EmptyFn /\ load_order = <<>> /\ visiting = {} /\ stack = <<>>
          /\ bundled_runtime = None
          /\ bundle = NoBundle /\ evalState = "none"
    /\ aliases = EmptyFn => err = NoErr /\ pc \notin {"unwind", "failed"}

\* load_modules returned for a working directory without rasen.config.js
C21_Witness == pc = "noop" /\ bundled_runtime = None /\ err = NoErr

\* C23: whenever a call of load_module_recursive is entered or left, the visiting set is the
\* set of the paths of the active calls, none of them is a key of the module map, and the
\* set is empty when the traversal of an entry has returned Ok.
C23_VisitingIsTheStack ==
    /\ pc \in {"build", "unwind"} => visiting = OnStack
    /\ visiting \cap DOMAIN modules = {}
    /\ (pc = "build" /\ stack = <<>>) => visiting = {}

\* C23, for the calls that are entered and the calls that return Ok: there the visiting set
\* is the set of the paths of the active calls; a call that returns an error leaves its
\* path and the paths of its callers in the set.
C23_VisitingIsTheStackUntilError ==
    /\ pc = "build" => visiting = OnStack
    /\ pc = "unwind" => OnStack \subseteq visiting /\ err.who \in visiting \ OnStack
    /\ visiting \cap DOMAIN modules = {}
    /\ (pc = "build" /\ stack = <<>>) => visiting = {}
    /\ BuildOk => visiting = {}

\* a call two deep is active, after a sibling of it returned Ok
C23_Witness ==
    /\ pc = "build" /\ Len(stack) >= 2
    /\ visiting = OnStack
    /\ DOMAIN modules # {}

(***************************************************************************)
(* Properties of tw_parser.                                                *)
(***************************************************************************)
\* the value a class gives to a property, for the classes that target one of the four
TwTarget ==
    [display |-> ("flex" :> "Flex") @@ ("block" :> "Block"),
     flex_direction |-> ("flex-row" :> "Row") @@ ("flex-col" :> "Column"),
     justify_content |-> ("justify-end" :> "FlexEnd") @@ ("justify-center" :> "Center"),
     align_items |-> ("items-start" :> "FlexStart") @@ ("items-center" :> "Center")]
\* the classes of the string that parse has been through
TwParsed == SubSeq(split_whitespace(class_string), 1, tw_pos)
\* the value of the last class of the sequence that targets the property, None without one
LastTargeting(classes, prop) ==
    LET at == {k \in DOMAIN classes : classes[k] \in DOMAIN TwTarget[prop]}
    IN IF at = {} THEN NoStyle
       ELSE TwTarget[prop][classes[CHOOSE k \in at : \A j \in at : j <= k]]

\* C22: after every class of the string, display, flex_direction, justify_content and
\* align_items are each the value of the last class so far that targets the property, and
\* None when no class so far targets it; so a class that is not recognized, and a class
\* for any other property, changes none of the four.
C22_LastClassWins ==
    tw_pos > 0 =>
       \A prop \in DOMAIN TwTarget : styles[prop] = LastTargeting(TwParsed, prop)

\* parse returned for a string where a later class overrides an earlier one for the same
\* property, with a class for another property after it
C22_Witness ==
    /\ tw_pos = 3 /\ tw_pos = Len(split_whitespace(class_string))
    /\ TwParsed[1] = "flex" /\ TwParsed[2] = "block" /\ TwParsed[3] \in {"flexbox", "hidden"}
    /\ styles.display = "Block"

(***************************************************************************)
(* Properties of import discovery and import rewriting.                    *)
(***************************************************************************)
\* the string literals of the require calls of the rewritten source
Required == {code[k + 2] : k \in {j \in DOMAIN code : j + 2 <= Len(code) /\ code[j] = "require"}}
\* the specifiers of the source
Written == {source_text[k] : k \in {j \in DOMAIN source_text : source_text[j] \in StrLits}}

\* C24: once a source is rewritten, the specifier of every statement that became a require
\* call was returned by parse_imports for that source, and no require call holds the raw
\* specifier of an existing file: it holds the canonical path of the file.
C24_DiscoveryCoversRewriting ==
    tpc = "rewritten" =>
       /\ Required # {} => Written \subseteq Range(found)
       /\ Required \cap FileSpecs = {}

(***************************************************************************)
(* Properties of JsRuntime.                                                *)
(***************************************************************************)
\* C25: of all the calls of execute_with_modules on one runtime, at most one starts the
\* initialization, and it is the first that took the lock of initialized; every call
\* that took the lock later goes the re-render path.
C25_OneInitialization ==
    /\ Cardinality({c \in Calls : calls[c].path = "init"}) <= 1
    /\ \A c \in Calls :
          /\ calls[c].path = "init" => calls[c].order = 1
          /\ (calls[c].path # "none" /\ calls[c].order > 1) => calls[c].path = "rerender"
          /\ calls[c].at \in {"bundle", "script"} => calls[c].path = "init"

\* all the calls returned: one of them initialized, the others re-rendered
C25_Witness ==
    /\ \A c \in Calls : calls[c].at = "returned"
    /\ Cardinality({c \in Calls : calls[c].path = "init"}) = 1
    /\ Cardinality({c \in Calls : calls[c].path = "rerender"}) = MaxCalls - 1

\* C26: a call that saw initialized = true and went the re-render path saw it after an
\* initialization had returned Ok.
C26_FlagMeansInitialized ==
    \A c \in Calls : calls[c].path = "rerender" => calls[c].after_init

(***************************************************************************)
(* Properties of the EventManager.                                         *)
(***************************************************************************)
\* the threads inside take_render_request
Taking == {t \in Threads : threads[t].at \in {"take_locked", "take_read"}}
\* the step in which take_render_request of the thread clears the flag and returns
TakeReturns(t) == threads[t].at = "take_read" /\ threads'[t].at = "idle"
TakeStep ==
    /\ needs_render' = (em_history'.pending > 0)
    /\ \A t \in Threads :
          TakeReturns(t) =>
             /\ em_history'.last = <<"take", em_history.pending > 0>>
             /\ needs_render' = FALSE

\* C27: the render flag is true exactly when request_render happened since the last
\* take_render_request; a take returns true exactly when it did, and leaves the flag
\* false, however the calls of the two threads interleave: no request made before the
\* take returns is left out of its answer, and none is left for a second take.
C27_TakeIsAtomic == [][TakeStep]_vars

\* a take returned true for the requests made before it, and the flag stands cleared
C27_Witness ==
    /\ em_history.last = <<"take", TRUE>>
    /\ needs_render = FALSE /\ em_history.pending = 0
    /\ em_history.started = MaxRequests

\* the steps of invoke_handler of a thread
InvokeLooks(t) == threads[t].at = "idle" /\ threads'[t].at = "invoke_looked"
InvokeReturns(t) ==
    threads[t].at \in {"invoke_looked", "invoke_request"} /\ threads'[t].at = "idle"
InvokeStep ==
    \A t \in Threads :
       /\ (threads[t].at \in {"invoke_looked", "invoke_request"} /\ threads'[t] # threads[t])
             => handlers' = handlers
       /\ InvokeLooks(t) =>
             /\ handlers' = handlers /\ needs_render' = needs_render
             /\ threads'[t].func = (threads'[t].id \in DOMAIN handlers)
       /\ (threads[t].at = "invoke_looked" /\ threads'[t].at = "invoke_request") =>
             needs_render' = needs_render
       /\ InvokeReturns(t) =>
             /\ em_history'.last = <<"invoke", threads[t].func /\ threads[t].ok>>
             /\ IF threads[t].func /\ threads[t].ok
                THEN needs_render' = TRUE
                ELSE needs_render' = needs_render

\* C28: invoke_handler returns true, having set the render flag, exactly when the lookup
\* found a handler under the id and the call of the handler succeeded; in every other
\* case it returns false and leaves the flag as it was; no step of it changes the map.
C28_InvokeResult == [][InvokeStep]_vars

\* an invoke_handler returned true and the flag is set, with the handler still registered
C28_Witness ==
    /\ em_history.last = <<"invoke", TRUE>>
    /\ needs_render = TRUE
    /\ handlers # EmptyFn

\* the calls of next_handler_id, as <<thread, index>>
IdCalls == {<<t, k>> : t \in Threads, k \in 1..MaxIds} \cap
           {c \in Threads \X (1..MaxIds) : c[2] <= Len(threads[c[1]].ids)}
IdOf(c) == threads[c[1]].ids[c[2]]

\* C29: no two calls of next_handler_id returned the same value, the values of one thread
\* are strictly increasing, and every registered handler is the one of the call that
\* obtained its id: no registration replaced another.
C29_IdsUnique ==
    /\ \A c, d \in IdCalls : c # d => IdOf(c) # IdOf(d)
    /\ \A c, d \in IdCalls : (c[1] = d[1] /\ c[2] < d[2]) => IdOf(c) < IdOf(d)
    /\ \A c \in IdCalls : 1 <= IdOf(c) /\ IdOf(c) < HANDLER_ID_COUNTER
    /\ \A id \in DOMAIN handlers : handlers[id] \in IdCalls /\ IdOf(handlers[id]) = id

\* both threads obtained ids in turn and all their handlers are registered
C29_Witness ==
    /\ Len(threads["main"].ids) >= 2 /\ Len(threads["worker"].ids) >= 1
    /\ threads["main"].ids[1] < threads["worker"].ids[1]
    /\ threads["worker"].ids[1] < threads["main"].ids[2]
    /\ Cardinality(DOMAIN handlers) = MaxIds

\* C30: a thread inside invoke_handler, after the lookup, holds neither the read nor the
\* write lock of the manager, so the write lock of its request_render is granted as soon
\* as no other thread holds the lock; a thread holds the write lock only inside
\* take_render_request and no thread keeps a read lock.
C30_NoLockAcrossCall ==
    /\ \A t \in Threads :
          threads[t].at \in {"invoke_looked", "invoke_request"} =>
             lock.writer # t /\ t \notin lock.readers
    /\ lock.readers = {}
    /\ lock.writer # NoThread => lock.writer \in Taking
    /\ \A t \in Threads :
          (threads[t].at = "invoke_request" /\ Taking \ {t} = {}) =>
             ENABLED InvokeRequestRender(t)

\* a handler has run on one thread, which is about to request the render, while the other
\* thread is about to register a handler
C30_Witness ==
    /\ threads["main"].at = "invoke_request"
    /\ threads["worker"].at = "register"
    /\ lock = [writer |-> NoThread, readers |-> {}]
====
